---- MODULE Spec2Model ----
(***************************************************************************)
(* Model of the okroshka IR loader: the module validator (IRModule::new    *)
(* and IRModule::check), the inline-assembly constructor                   *)
(* (IRInlineAssembly::new) and the generated instruction decoder           *)
(* (deserialize_instruction).                                              *)
(*                                                                         *)
(* Each of the three is a function of its arguments.  A specification      *)
(* draws the arguments from bounded sets in its initial states and has one *)
(* action that applies the function:                                       *)
(*   Spec      - IRModule::new over the eight tables                       *)
(*   SpecAsm   - IRInlineAssembly::new over parameters and jump targets    *)
(*   SpecInstr - Deserialize for IRInstruction over one instruction record *)
(* A HashMap is a function whose DOMAIN is the key set.  The iteration     *)
(* order of a HashMap is unspecified, so a loop over one that returns at   *)
(* the first error is a nondeterministic choice among the errors of its    *)
(* failing entries.                                                        *)
(***************************************************************************)
EXTENDS Integers, Sequences, FiniteSets, TLC

VARIABLES pc, tables, module_result, asm_args, asm_result, instr_value, instr_result,
          document, decode_result

vars == <<pc, tables, module_result, asm_args, asm_result, instr_value, instr_result,
          document, decode_result>>

(***************************************************************************)
(* Bounds of the model.                                                    *)
(***************************************************************************)
\* longest flattened type content
MaxTypeLen == 1
\* longest function body
MaxBodyLen == 2

TypeIds == {1, 2}
StringIds == {1, 5}
DeclIds == {1, 2}
FunctionNames == {"f", "g"}
DataNames == {"d", "e"}
SymbolNames == {"x", "y"}
AsmIds == {1, 2}
\* code offsets reach one past the one-past-the-end address of the longest body
Offsets == 0..(MaxBodyLen + 1)
TypeIndexes == 0..MaxTypeLen

EmptyMap == [k \in {} |-> {}]

BoundedSeq(S, n) == UNION {[1..k -> S] : k \in 0..n}

(***************************************************************************)
(* Result<_, IRError>: "?" returns the first error.                        *)
(***************************************************************************)
Ok == "Ok"

\* Option<T>
None == [some |-> FALSE]

Some(v) == [some |-> TRUE, v |-> v]

Then(first, second) == IF first # Ok THEN first ELSE second

E_DeclKey == "Expected IR function declaration identifier to match respective index key"
E_DataKey == "Expected IR data name to match respective index key"
E_AsmKey == "Expected IR inline assembly identifier to match respective index key"
E_JumpFunction == "Unable to find specified jump target function"
E_JumpOffset == "Expected IR inline assembly jump target offset exceeds respective function body length"
E_CodeRef == "IR instruction argument code reference exceeds respective block boundaries"
E_FunctionDeclaration == "Provided IR function declaration identifier does not exist in the module"
E_StringLiteral == "Provided IR string literal identifier does not exist in the module"
E_TypeId == "Provided IR type identifier does not exist in the module"
E_TypeIndex == "Provided IR type index exceeds respective IR type length"

(***************************************************************************)
(* The opcode registry: a sample of the instruction set, one opcode or     *)
(* more per payload class.  The generated enum IRInstruction has one       *)
(* variant per entry, named by its identifier.                             *)
(***************************************************************************)
Opcodes ==
    { [identifier |-> "Ret",        mnemonic |-> "ret",        code |-> 10, klass |-> "none"],
      [identifier |-> "Jmp",        mnemonic |-> "jmp",        code |-> 11, klass |-> "coderef"],
      [identifier |-> "Invoke",     mnemonic |-> "invoke",     code |-> 12, klass |-> "funcref"],
      [identifier |-> "GetLocal",   mnemonic |-> "getlocal",   code |-> 13, klass |-> "typeref"],
      [identifier |-> "PushI",      mnemonic |-> "pushi",      code |-> 14, klass |-> "i64"],
      [identifier |-> "PushU",      mnemonic |-> "pushu",      code |-> 15, klass |-> "u64"],
      [identifier |-> "ExtUBits",   mnemonic |-> "extubits",   code |-> 16, klass |-> "u32"],
      [identifier |-> "PushF64",    mnemonic |-> "pushf64",    code |-> 17, klass |-> "f64"],
      [identifier |-> "PushF32",    mnemonic |-> "pushf32",    code |-> 18, klass |-> "f32"],
      [identifier |-> "PushBool",   mnemonic |-> "pushbool",   code |-> 19, klass |-> "bool"],
      [identifier |-> "PushString", mnemonic |-> "pushstring", code |-> 20, klass |-> "string"],
      [identifier |-> "GetGlobal",  mnemonic |-> "getglobal",  code |-> 21, klass |-> "identifier"],
      [identifier |-> "Load8",      mnemonic |-> "load8",      code |-> 22, klass |-> "memflags"],
      [identifier |-> "Branch",     mnemonic |-> "branch",     code |-> 23, klass |-> "coderef"],
      [identifier |-> "Nop",        mnemonic |-> "nop",        code |-> 24, klass |-> "none"] }

OpcodeOf(identifier) == CHOOSE o \in Opcodes : o.identifier = identifier

(***************************************************************************)
(* IRInstruction values.  A variant's payload is kept in one record whose  *)
(* fields are those of the widest shapes; a shape leaves the fields it     *)
(* does not have at their defaults:                                        *)
(*   x, y  - the numeric components (i64, u64, usize, the u32 pair,        *)
(*           IRTypeRef{type_id, type_index}, the funcref identifier)       *)
(*   s     - the String (identifier, funcref name)                         *)
(*   b     - the bool (bool, memflags.volatile); for funcref, whether the  *)
(*           Option<String> name is Some                                   *)
(***************************************************************************)
NoPayload == [x |-> 0, y |-> 0, s |-> "", b |-> FALSE]

IRInstruction(identifier, payload) == [identifier |-> identifier, payload |-> payload]

IRTypeRef(type_id, type_index) == [type_id |-> type_id, type_index |-> type_index]

\* the generated IRInstruction::argument
argument(instr) ==
    LET klass == OpcodeOf(instr.identifier).klass
        p == instr.payload
    IN  CASE klass = "none" -> [tag |-> "None"]
          [] klass = "i64" -> [tag |-> "Integer", x |-> p.x]
          [] klass = "u64" -> [tag |-> "UInteger", x |-> p.x]
          [] klass = "u32" -> [tag |-> "UIntegerPair", x |-> p.x, y |-> p.y]
          [] klass = "f64" -> [tag |-> "Float64", x |-> p.x]
          [] klass = "f32" -> [tag |-> "Float32", x |-> p.x]
          [] klass = "bool" -> [tag |-> "Boolean", x |-> p.b]
          [] klass = "string" -> [tag |-> "String", x |-> p.x]
          [] klass = "identifier" -> [tag |-> "Identifier", id |-> p.s]
          [] klass = "typeref" -> [tag |-> "TypeRef", x |-> IRTypeRef(p.x, p.y)]
          [] klass = "coderef" -> [tag |-> "CodeRef", x |-> p.x]
          [] klass = "funcref" -> [tag |-> "FunctionRef", id |-> p.x, has_name |-> p.b, name |-> p.s]
          [] klass = "memflags" -> [tag |-> "MemFlags", volatile |-> p.b]

\* the generated IRInstruction::code
IRInstruction_code(instr) == OpcodeOf(instr.identifier).code

\* the generated IRInstruction::mnemonic
IRInstruction_mnemonic(instr) == OpcodeOf(instr.identifier).mnemonic

(***************************************************************************)
(* The IR entities.                                                        *)
(***************************************************************************)
IRBlock(code) == [code |-> code]

IRBlock_len(block) == Len(block.code)

\* IRTypeEntry: the variant, its alignment (an Option) and the variant's number
\* (Bits.width, Struct/Union.num_of_fields, Array.length; 0 for the others)
IRTypeEntry(variant, alignment, n) == [variant |-> variant, alignment |-> alignment, n |-> n]

IRType(id, content) == [id |-> id, content |-> content]

IRType_len(tp) == Len(tp.content)

IRSymbol(variant, name) == [variant |-> variant, name |-> name]

IRStringLiteral(id, public, content) == [id |-> id, public |-> public, content |-> content]

IRFunctionDeclaration(id, name, params, vararg, result) ==
    [id |-> id, name |-> name, params |-> params, vararg |-> vararg, result |-> result]

IRFunction(name, declaration, locals, body) ==
    [name |-> name, declaration |-> declaration, locals |-> locals, body |-> body]

IRData(name, storage, datatype, elements) ==
    [name |-> name, storage |-> storage, datatype |-> datatype, data |-> elements]

IRInlineAssemblyParameter(id, aliases, klass, constraint) ==
    [id |-> id, aliases |-> aliases, klass |-> klass, constraint |-> constraint]

IRInlineAssemblyJumpTarget(id, aliases, target_function, target_offset) ==
    [id |-> id, aliases |-> aliases, target_function |-> target_function,
     target_offset |-> target_offset]

\* the struct IRModule: the eight tables
IRModule(globals, externals, types, string_literals, function_declarations, functions, data, inline_asm) ==
    [globals |-> globals, externals |-> externals, types |-> types,
     string_literals |-> string_literals, function_declarations |-> function_declarations,
     functions |-> functions, data |-> data, inline_asm |-> inline_asm]

(***************************************************************************)
(* IRModule: the lookups of the validator.                                 *)
(***************************************************************************)
\* check_function_declaration_id that accepts every id
check_function_declaration_id_any(self, id) == Ok

check_function_declaration_id(self, id) ==
    IF id \in DOMAIN self.function_declarations THEN Ok ELSE E_FunctionDeclaration

\* check_string_literal that accepts every id
check_string_literal_any(self, id) == Ok

check_string_literal(self, id) ==
    IF id \in DOMAIN self.string_literals THEN Ok ELSE E_StringLiteral

\* check_type_id that accepts every id
check_type_id_any(self, id) == Ok

check_type_id(self, id) ==
    IF id \in DOMAIN self.types THEN Ok ELSE E_TypeId

\* check_type_ref with <= for <
check_type_ref_le(self, typeref) ==
    IF typeref.type_id \in DOMAIN self.types
    THEN IF typeref.type_index <= IRType_len(self.types[typeref.type_id])
         THEN Ok
         ELSE E_TypeIndex
    ELSE E_TypeId

check_type_ref(self, typeref) ==
    IF typeref.type_id \in DOMAIN self.types
    THEN IF typeref.type_index < IRType_len(self.types[typeref.type_id])
         THEN Ok
         ELSE E_TypeIndex
    ELSE E_TypeId

\* the match of check_block with >= for > in the CodeRef arm
check_instruction_ge(self, block, instr) ==
    LET arg == argument(instr)
    IN  CASE arg.tag = "CodeRef" ->
               IF arg.x >= IRBlock_len(block) THEN E_CodeRef ELSE Ok
          [] arg.tag = "String" -> check_string_literal(self, arg.x)
          [] arg.tag = "TypeRef" -> check_type_ref(self, arg.x)
          [] arg.tag = "FunctionRef" -> check_function_declaration_id(self, arg.id)
          [] OTHER -> Ok

\* the match of check_block with the UInteger argument looked up as a string
\* literal id as well
check_instruction_u64(self, block, instr) ==
    LET arg == argument(instr)
    IN  CASE arg.tag = "CodeRef" ->
               IF arg.x > IRBlock_len(block) THEN E_CodeRef ELSE Ok
          [] arg.tag \in {"String", "UInteger"} -> check_string_literal(self, arg.x)
          [] arg.tag = "TypeRef" -> check_type_ref(self, arg.x)
          [] arg.tag = "FunctionRef" -> check_function_declaration_id(self, arg.id)
          [] OTHER -> Ok

\* one arm of the match in check_block
check_instruction(self, block, instr) ==
    LET arg == argument(instr)
    IN  CASE arg.tag = "CodeRef" ->
               IF arg.x > IRBlock_len(block) THEN E_CodeRef ELSE Ok
          [] arg.tag = "String" -> check_string_literal(self, arg.x)
          [] arg.tag = "TypeRef" -> check_type_ref(self, arg.x)
          [] arg.tag = "FunctionRef" -> check_function_declaration_id(self, arg.id)
          [] OTHER -> Ok

\* the loop of check_block from instruction i on: a Vec is visited in order
RECURSIVE check_block_from(_, _, _)
check_block_from(self, block, i) ==
    IF i > IRBlock_len(block)
    THEN Ok
    ELSE Then(check_instruction(self, block, block.code[i]),
              check_block_from(self, block, i + 1))

check_block(self, block) == check_block_from(self, block, 1)

(***************************************************************************)
(* IRModule::check, one loop body per table entry.  Each gives the result  *)
(* of visiting that entry; those of an inline-assembly block, whose        *)
(* parameters and jump targets are HashMaps again, give the set of results *)
(* the iteration orders allow.                                             *)
(***************************************************************************)
check_function_declaration(self, func_decl_id) ==
    LET func_decl == self.function_declarations[func_decl_id]
    IN  IF func_decl_id # func_decl.id
        THEN E_DeclKey
        ELSE Then(check_type_id(self, func_decl.params),
                  check_type_id(self, func_decl.result))

check_function(self, func_id) ==
    LET func == self.functions[func_id]
    IN  IF func_id # func.name
        THEN E_DeclKey
        ELSE Then(check_function_declaration_id(self, func.declaration),
             Then(check_type_id(self, func.locals),
                  check_block(self, func.body)))

\* a data loop that resolves the base of every Pointer element against the
\* symbol, function and data tables
check_data_resolving(self, data_name) ==
    LET data == self.data[data_name]
        named == DOMAIN self.globals \cup DOMAIN self.externals
                 \cup DOMAIN self.functions \cup DOMAIN self.data
    IN  IF data_name # data.name
        THEN E_DataKey
        ELSE IF \E i \in 1..Len(data.data) :
                   data.data[i].variant = "Pointer" /\ data.data[i].s \notin named
             THEN E_DataKey
             ELSE check_type_id(self, data.datatype)

\* a data loop that looks the base of every StringPointer element up in the
\* string literal table
check_data_literals(self, data_name) ==
    LET data == self.data[data_name]
    IN  IF data_name # data.name
        THEN E_DataKey
        ELSE IF \E i \in 1..Len(data.data) :
                   /\ data.data[i].variant = "StringPointer"
                   /\ check_string_literal(self, data.data[i].n) # Ok
             THEN E_StringLiteral
             ELSE check_type_id(self, data.datatype)

check_data(self, data_name) ==
    LET data == self.data[data_name]
    IN  IF data_name # data.name
        THEN E_DataKey
        ELSE check_type_id(self, data.datatype)

check_parameter(self, param) ==
    LET klass == param.klass
    IN  CASE klass.tag = "ImmediateLiteralBased" ->
               Then(check_type_ref(self, klass.typeref),
                    check_string_literal(self, klass.literal_id))
          [] klass.tag = "ReadStore" ->
               Then(check_type_ref(self, klass.typeref1),
                    check_type_ref(self, klass.typeref2))
          [] OTHER -> check_type_ref(self, klass.typeref)

\* the jump-target check with >= for >
check_jump_target_ge(self, jump_target) ==
    IF jump_target.target_function \notin DOMAIN self.functions
    THEN E_JumpFunction
    ELSE IF jump_target.target_offset >=
              IRBlock_len(self.functions[jump_target.target_function].body)
         THEN E_JumpOffset
         ELSE Ok

check_jump_target(self, jump_target) ==
    IF jump_target.target_function \notin DOMAIN self.functions
    THEN E_JumpFunction
    ELSE IF jump_target.target_offset >
              IRBlock_len(self.functions[jump_target.target_function].body)
         THEN E_JumpOffset
         ELSE Ok

\* a loop that ends with the result of the entry it visits first
Loop_first(results) == IF results = {} THEN {Ok} ELSE results

\* the results a loop over a HashMap can end with: the error of any failing
\* entry, or Ok when no entry fails
Loop(results) == IF results \ {Ok} # {} THEN results \ {Ok} ELSE {Ok}

\* two loops in sequence: the second runs when the first ended Ok
Seq2(first, second) == IF Ok \in first THEN second ELSE first

check_inline_asm(self, inline_asm_id) ==
    LET inline_asm == self.inline_asm[inline_asm_id]
    IN  IF inline_asm_id # inline_asm.id
        THEN {E_AsmKey}
        ELSE Seq2(Loop({check_parameter(self, inline_asm.parameters[p]) :
                            p \in DOMAIN inline_asm.parameters}),
                  Loop({check_jump_target(self, inline_asm.jump_targets[j]) :
                            j \in DOMAIN inline_asm.jump_targets}))

\* IRModule::check: the set of results the iteration orders allow
check(self) ==
    Seq2(Loop({check_function_declaration(self, k) : k \in DOMAIN self.function_declarations}),
    Seq2(Loop({check_function(self, k) : k \in DOMAIN self.functions}),
    Seq2(Loop({check_data(self, k) : k \in DOMAIN self.data}),
         Loop(UNION {check_inline_asm(self, k) : k \in DOMAIN self.inline_asm}))))

(***************************************************************************)
(* IRModule::new: Ok(module) when check is Ok, its error otherwise.        *)
(***************************************************************************)
NoModule == [none |-> TRUE]

NoResult == [tag |-> "none", msg |-> "", module |-> NoModule]

\* new without the call of check
IRModule_new_unchecked(self) == {[tag |-> "Ok", msg |-> "", module |-> self]}

IRModule_new(self) ==
    { IF r = Ok
      THEN [tag |-> "Ok", msg |-> "", module |-> self]
      ELSE [tag |-> "Err", msg |-> r, module |-> NoModule] : r \in check(self) }

(***************************************************************************)
(* IRInlineAssembly::new.  The constructor visits the parameters, then the *)
(* jump targets, each HashMap in an order of its own (porder, jorder: the  *)
(* keys in visiting order), and each alias list in Vec order.              *)
(***************************************************************************)
E_ParamKey == "IR inline assembly parameter identifier does not match the index"
E_DupAlias == "Detected duplicating IR inline assembly aliases"

\* the ways a HashMap can be iterated: its keys in any order
Orders(map) ==
    { order \in [1..Cardinality(DOMAIN map) -> DOMAIN map] :
        \A i, j \in DOMAIN order : i # j => order[i] # order[j] }

\* an inner loop that indexes the first alias of a list only
insert_aliases_first(alias_index, aliases, i, indexed) ==
    IF i > Len(aliases)
    THEN [err |-> Ok, alias_index |-> alias_index]
    ELSE IF aliases[i] \in DOMAIN alias_index
         THEN [err |-> E_DupAlias, alias_index |-> alias_index]
         ELSE [err |-> Ok, alias_index |-> (aliases[i] :> indexed) @@ alias_index]

\* the inner loop: alias_index.insert(alias, indexed) for aliases[i..],
\* failing when insert returns Some (the alias was indexed already)
RECURSIVE insert_aliases(_, _, _, _)
insert_aliases(alias_index, aliases, i, indexed) ==
    IF i > Len(aliases)
    THEN [err |-> Ok, alias_index |-> alias_index]
    ELSE LET inserted == (aliases[i] :> indexed) @@ alias_index
         IN  IF aliases[i] \in DOMAIN alias_index
             THEN [err |-> E_DupAlias, alias_index |-> inserted]
             ELSE insert_aliases(inserted, aliases, i + 1, indexed)

\* one of the two outer loops, from position i of its visiting order on
RECURSIVE index_entities(_, _, _, _, _)
index_entities(entities, order, i, kind, alias_index) ==
    IF i > Len(order)
    THEN [err |-> Ok, alias_index |-> alias_index]
    ELSE LET key == order[i]
             entity == entities[key]
             r == insert_aliases(alias_index, entity.aliases, 1, [kind |-> kind, id |-> key])
         IN  IF key # entity.id
             THEN [err |-> E_ParamKey, alias_index |-> alias_index]
             ELSE IF r.err # Ok
                  THEN r
                  ELSE index_entities(entities, order, i + 1, kind, r.alias_index)

NoAsm == [none |-> TRUE]

NoAsmResult == [tag |-> "none", msg |-> "", asm |-> NoAsm]

\* new with an alias index of its own for the jump targets
IRInlineAssembly_new_separate(args, porder, jorder) ==
    LET p == index_entities(args.parameters, porder, 1, "Parameter", EmptyMap)
        j == index_entities(args.jump_targets, jorder, 1, "JumpTarget", EmptyMap)
    IN  IF p.err # Ok
        THEN [tag |-> "Err", msg |-> p.err, asm |-> NoAsm]
        ELSE IF j.err # Ok
             THEN [tag |-> "Err", msg |-> j.err, asm |-> NoAsm]
             ELSE [tag |-> "Ok", msg |-> "",
                   asm |-> [id |-> args.id, global |-> args.global,
                            template |-> args.template, parameters |-> args.parameters,
                            clobbers |-> args.clobbers, jump_targets |-> args.jump_targets,
                            alias_index |-> j.alias_index @@ p.alias_index]]

IRInlineAssembly_new(args, porder, jorder) ==
    LET p == index_entities(args.parameters, porder, 1, "Parameter", EmptyMap)
        j == index_entities(args.jump_targets, jorder, 1, "JumpTarget", p.alias_index)
    IN  IF p.err # Ok
        THEN [tag |-> "Err", msg |-> p.err, asm |-> NoAsm]
        ELSE IF j.err # Ok
             THEN [tag |-> "Err", msg |-> j.err, asm |-> NoAsm]
             ELSE [tag |-> "Ok", msg |-> "",
                   asm |-> [id |-> args.id, global |-> args.global,
                            template |-> args.template, parameters |-> args.parameters,
                            clobbers |-> args.clobbers, jump_targets |-> args.jump_targets,
                            alias_index |-> j.alias_index]]

\* IRInlineAssembly::get_by_alias: an Option
get_by_alias(self, alias) ==
    IF alias \in DOMAIN self.alias_index
    THEN [some |-> TRUE, v |-> self.alias_index[alias]]
    ELSE [some |-> FALSE]

\* the arguments of IRInlineAssembly::new
AsmArgs(id, parameters, jump_targets) ==
    [id |-> id, global |-> FALSE, template |-> "", parameters |-> parameters,
     clobbers |-> {}, jump_targets |-> jump_targets]

\* the inline-assembly blocks the constructor returns for these arguments
Constructed(args) ==
    { r.asm : r \in { x \in { IRInlineAssembly_new(args, po, jo) :
                                  po \in Orders(args.parameters),
                                  jo \in Orders(args.jump_targets) } : x.tag = "Ok" } }

(***************************************************************************)
(* The arguments the specifications draw from.                             *)
(***************************************************************************)
Contents(n) == [i \in 1..n |-> IRTypeEntry("Int32", None, 0)]

TypeRefs == {IRTypeRef(t, i) : t \in TypeIds, i \in TypeIndexes}

Payload(x, y) == [NoPayload EXCEPT !.x = x, !.y = y]

Ret == IRInstruction("Ret", NoPayload)

\* instructions of the classes the validator looks at, and of two it does not
Instructions ==
    {Ret}
    \cup {IRInstruction("Jmp", Payload(k, 0)) : k \in Offsets}
    \cup {IRInstruction("PushString", Payload(s, 0)) : s \in StringIds}
    \cup {IRInstruction("PushU", Payload(5, 0))}
    \cup {IRInstruction("GetLocal", Payload(r.type_id, r.type_index)) : r \in TypeRefs}
    \cup {IRInstruction("Invoke", Payload(d, 0)) : d \in DeclIds}

Bodies == BoundedSeq(Instructions, MaxBodyLen)

TheDeclaration == IRFunctionDeclaration(1, None, 1, FALSE, 1)

TheFunction == IRFunction("f", 1, 1, IRBlock(<<Ret>>))

TypeTables ==
    {EmptyMap} \cup {1 :> IRType(id, Contents(n)) : id \in TypeIds, n \in 0..MaxTypeLen}

KeyedTypeTables ==
    {EmptyMap} \cup {1 :> IRType(1, Contents(n)) : n \in 0..MaxTypeLen}

StringTables ==
    {EmptyMap} \cup {1 :> IRStringLiteral(id, FALSE, <<>>) : id \in StringIds}

KeyedStringTables == {EmptyMap, 1 :> IRStringLiteral(1, FALSE, <<>>)}

SymbolTables ==
    {EmptyMap} \cup {"x" :> IRSymbol("Global", name) : name \in SymbolNames}

DeclTables ==
    {EmptyMap}
    \cup {1 :> IRFunctionDeclaration(id, None, params, FALSE, result) :
            id \in DeclIds, params \in TypeIds, result \in TypeIds}

TwoDeclTables ==
    { (1 :> IRFunctionDeclaration(id1, None, p1, FALSE, 1))
        @@ (2 :> IRFunctionDeclaration(id2, None, p2, FALSE, 1)) :
        id1 \in DeclIds, id2 \in DeclIds, p1 \in TypeIds, p2 \in TypeIds }

HeaderFunctionTables ==
    {EmptyMap}
    \cup {"f" :> IRFunction(name, declaration, locals, IRBlock(body)) :
            name \in FunctionNames, declaration \in DeclIds, locals \in TypeIds,
            body \in {<<>>, <<Ret>>}}

BodyFunctionTables == {"f" :> IRFunction("f", 1, 1, IRBlock(body)) : body \in Bodies}

RetFunctionTables ==
    {EmptyMap} \cup {"f" :> IRFunction("f", 1, 1, IRBlock([i \in 1..n |-> Ret])) : n \in 0..MaxBodyLen}

DataTables ==
    {EmptyMap}
    \cup {"d" :> IRData(name, "Global", datatype, <<>>) : name \in DataNames, datatype \in TypeIds}

ParameterClasses ==
    {[tag |-> "ImmediateConstant", typeref |-> r, value |-> 0] : r \in TypeRefs}
    \cup {[tag |-> "ImmediateIdentifierBased", typeref |-> r, name |-> "x", value |-> 0] :
            r \in TypeRefs}
    \cup {[tag |-> "ImmediateLiteralBased", typeref |-> r, literal_id |-> s, value |-> 0] :
            r \in TypeRefs, s \in StringIds}
    \cup {[tag |-> t, typeref |-> r, index |-> 0] :
            t \in {"Read", "Load", "Store", "LoadStore"}, r \in TypeRefs}
    \cup {[tag |-> "ReadStore", typeref1 |-> r1, index1 |-> 0, typeref2 |-> r2, index2 |-> 0] :
            r1 \in TypeRefs, r2 \in TypeRefs}

Parameter(id, klass) == IRInlineAssemblyParameter(id, <<>>, klass, "None")

ParameterTables ==
    {EmptyMap}
    \cup {1 :> Parameter(1, klass) : klass \in ParameterClasses}
    \cup {(1 :> Parameter(1, [tag |-> "Read", typeref |-> r, index |-> 0]))
            @@ (2 :> Parameter(2, [tag |-> "ImmediateLiteralBased", typeref |-> IRTypeRef(1, 0),
                                   literal_id |-> s, value |-> 0])) :
            r \in TypeRefs, s \in StringIds}

JumpTargets(id) ==
    {IRInlineAssemblyJumpTarget(id, <<>>, function, offset) :
        function \in FunctionNames, offset \in Offsets}

JumpTargetTables ==
    {EmptyMap}
    \cup {1 :> t : t \in JumpTargets(1)}
    \cup {(1 :> t1) @@ (2 :> t2) : t1 \in JumpTargets(1), t2 \in JumpTargets(2)}

\* inline-assembly tables hold blocks the constructor returned
AsmTables(parameter_tables, jump_target_tables) ==
    {EmptyMap}
    \cup UNION { {1 :> asm : asm \in Constructed(AsmArgs(id, parameters, jump_targets))} :
                   id \in AsmIds, parameters \in parameter_tables,
                   jump_targets \in jump_target_tables }

\* declarations, function headers, data objects and the types they name
HeaderInputs ==
    { IRModule(EmptyMap, EmptyMap, types, EmptyMap, function_declarations, functions, data,
               EmptyMap) :
        types \in TypeTables, function_declarations \in DeclTables,
        functions \in HeaderFunctionTables, data \in DataTables }

\* the tables the validator does not visit, and the keys of the others
KeyInputs ==
    { IRModule(globals, externals, types, string_literals, 1 :> TheDeclaration,
               "f" :> TheFunction, EmptyMap, inline_asm) :
        globals \in SymbolTables, externals \in SymbolTables, types \in TypeTables,
        string_literals \in StringTables, inline_asm \in AsmTables({EmptyMap}, {EmptyMap}) }

\* two declarations, visited in either order
TwoDeclInputs ==
    { IRModule(EmptyMap, EmptyMap, 1 :> IRType(1, Contents(1)), EmptyMap,
               function_declarations, "f" :> [TheFunction EXCEPT !.declaration = d],
               EmptyMap, EmptyMap) :
        function_declarations \in TwoDeclTables, d \in DeclIds }

\* function bodies and the tables their instructions refer to
BlockInputs ==
    { IRModule(EmptyMap, EmptyMap, types, string_literals, 1 :> TheDeclaration, functions,
               EmptyMap, EmptyMap) :
        types \in KeyedTypeTables, string_literals \in KeyedStringTables,
        functions \in BodyFunctionTables }

\* inline-assembly parameters and the tables their classes refer to
AsmParameterInputs ==
    { IRModule(EmptyMap, EmptyMap, types, string_literals, EmptyMap, EmptyMap, EmptyMap,
               inline_asm) :
        types \in KeyedTypeTables, string_literals \in KeyedStringTables,
        inline_asm \in AsmTables(ParameterTables, {EmptyMap}) }

\* inline-assembly jump targets and the functions they name
AsmJumpInputs ==
    { IRModule(EmptyMap, EmptyMap, 1 :> IRType(1, Contents(1)), EmptyMap, 1 :> TheDeclaration,
               functions, EmptyMap, inline_asm) :
        functions \in RetFunctionTables,
        inline_asm \in AsmTables({EmptyMap}, JumpTargetTables) }

ModuleInputs ==
    HeaderInputs \cup KeyInputs \cup TwoDeclInputs \cup BlockInputs
    \cup AsmParameterInputs \cup AsmJumpInputs

NoTables == IRModule(EmptyMap, EmptyMap, EmptyMap, EmptyMap, EmptyMap, EmptyMap, EmptyMap, EmptyMap)

NoAsmArgs == AsmArgs(0, EmptyMap, EmptyMap)

NoValue == [none |-> TRUE]

NoInstrResult == [tag |-> "none"]

(***************************************************************************)
(* Spec: the caller has built the eight tables; New is IRModule::new.      *)
(***************************************************************************)
Init ==
    /\ pc = "tables"
    /\ tables \in ModuleInputs
    /\ module_result = NoResult
    /\ asm_args = NoAsmArgs
    /\ asm_result = NoAsmResult
    /\ instr_value = NoValue
    /\ instr_result = NoInstrResult
    /\ document = NoValue
    /\ decode_result = NoResult

New ==
    /\ pc = "tables"
    /\ \E r \in IRModule_new(tables) : module_result' = r
    /\ pc' = "module"
    /\ UNCHANGED <<tables, asm_args, asm_result, instr_value, instr_result,
                 document, decode_result>>

Next == New

Spec == Init /\ [][Next]_vars

(***************************************************************************)
(* What the claims speak of, stated over the tables and not through the    *)
(* validator.                                                              *)
(***************************************************************************)
Done == pc = "module"

Accepted == Done /\ module_result.tag = "Ok"

Rejected == Done /\ module_result.tag = "Err"

RejectedWith(msg) == Rejected /\ module_result.msg = msg

\* the instruction arguments of all function bodies: P(function, argument)
AllArguments(m, P(_, _)) ==
    \A f \in DOMAIN m.functions :
        \A i \in 1..Len(m.functions[f].body.code) :
            P(m.functions[f], argument(m.functions[f].body.code[i]))

\* the parameters of all inline-assembly blocks
AllParameters(m, P(_)) ==
    \A a \in DOMAIN m.inline_asm :
        \A p \in DOMAIN m.inline_asm[a].parameters : P(m.inline_asm[a].parameters[p])

ClassTypeRefs(klass) ==
    IF klass.tag = "ReadStore" THEN {klass.typeref1, klass.typeref2} ELSE {klass.typeref}

TypeIdExists(m, id) == id \in DOMAIN m.types

TypeIndexInRange(m, typeref) ==
    TypeIdExists(m, typeref.type_id)
        => typeref.type_index < Len(m.types[typeref.type_id].content)

\* the keys of the four tables the validator visits
VisitedKeysMatch(m) ==
    /\ \A k \in DOMAIN m.function_declarations : m.function_declarations[k].id = k
    /\ \A k \in DOMAIN m.functions : m.functions[k].name = k
    /\ \A k \in DOMAIN m.data : m.data[k].name = k
    /\ \A k \in DOMAIN m.inline_asm : m.inline_asm[k].id = k

\* the keys of the four tables it does not visit
OtherKeysMatch(m) ==
    /\ \A k \in DOMAIN m.globals : m.globals[k].name = k
    /\ \A k \in DOMAIN m.externals : m.externals[k].name = k
    /\ \A k \in DOMAIN m.types : m.types[k].id = k
    /\ \A k \in DOMAIN m.string_literals : m.string_literals[k].id = k

\* declaration params and return, function locals, data type
TypeIdsResolve(m) ==
    /\ \A k \in DOMAIN m.function_declarations :
          /\ TypeIdExists(m, m.function_declarations[k].params)
          /\ TypeIdExists(m, m.function_declarations[k].result)
    /\ \A k \in DOMAIN m.functions : TypeIdExists(m, m.functions[k].locals)
    /\ \A k \in DOMAIN m.data : TypeIdExists(m, m.data[k].datatype)

TypeRefIdsResolve(m) ==
    /\ AllArguments(m, LAMBDA f, a : a.tag = "TypeRef" => TypeIdExists(m, a.x.type_id))
    /\ AllParameters(m, LAMBDA p : \A r \in ClassTypeRefs(p.klass) : TypeIdExists(m, r.type_id))

TypeIndexesInRange(m) ==
    /\ AllArguments(m, LAMBDA f, a : a.tag = "TypeRef" => TypeIndexInRange(m, a.x))
    /\ AllParameters(m, LAMBDA p : \A r \in ClassTypeRefs(p.klass) : TypeIndexInRange(m, r))

\* the declaration ids of functions and of funcref arguments
DeclarationIdsResolve(m) ==
    /\ \A k \in DOMAIN m.functions :
          m.functions[k].declaration \in DOMAIN m.function_declarations
    /\ AllArguments(m, LAMBDA f, a :
          a.tag = "FunctionRef" => a.id \in DOMAIN m.function_declarations)

\* the literal ids of string arguments and of literal-based immediates
StringIdsResolve(m) ==
    /\ AllArguments(m, LAMBDA f, a : a.tag = "String" => a.x \in DOMAIN m.string_literals)
    /\ AllParameters(m, LAMBDA p :
          p.klass.tag = "ImmediateLiteralBased"
              => p.klass.literal_id \in DOMAIN m.string_literals)

CodeRefsInBounds(m) ==
    AllArguments(m, LAMBDA f, a : a.tag = "CodeRef" => a.x <= Len(f.body.code))

JumpTargetsInBounds(m) ==
    \A a \in DOMAIN m.inline_asm :
        \A j \in DOMAIN m.inline_asm[a].jump_targets :
            LET target == m.inline_asm[a].jump_targets[j]
            IN  /\ target.target_function \in DOMAIN m.functions
                /\ target.target_offset
                     <= Len(m.functions[target.target_function].body.code)

\* every invariant the validator enforces
Validated(m) ==
    /\ VisitedKeysMatch(m)
    /\ TypeIdsResolve(m)
    /\ TypeRefIdsResolve(m)
    /\ TypeIndexesInRange(m)
    /\ DeclarationIdsResolve(m)
    /\ StringIdsResolve(m)
    /\ CodeRefsInBounds(m)
    /\ JumpTargetsInBounds(m)

(***************************************************************************)
(* C1: IRModule::new returns a Module only when check returned Ok: if the  *)
(* tables violate an invariant of the validator, new returns an error and  *)
(* no Module; a Module it returns is the tables it was given and satisfies *)
(* every invariant check enforces.                                         *)
(***************************************************************************)
C1_NewReturnsOnlyValidated ==
    Done =>
        /\ module_result.tag = "Ok" =>
              /\ module_result.module = tables
              /\ check(tables) = {Ok}
              /\ Validated(module_result.module)
        /\ (Ok \notin check(tables) \/ ~Validated(tables)) =>
              /\ module_result.tag = "Err"
              /\ module_result.module = NoModule

C1_Witness ==
    /\ Accepted
    /\ DOMAIN module_result.module.functions # {}
    /\ \E a \in DOMAIN module_result.module.inline_asm :
          DOMAIN module_result.module.inline_asm[a].jump_targets # {}

(***************************************************************************)
(* C2: code-reference boundary law.  A module holding a code reference     *)
(* with offset k > L, L the length of the body it is in, is rejected       *)
(* (k = L + 1 included); the code-reference error is reported only when    *)
(* such a reference exists, so k <= L is accepted (k = L included).        *)
(***************************************************************************)
C2_CodeRefBoundary ==
    Done =>
        /\ ~CodeRefsInBounds(tables) => Rejected
        /\ RejectedWith(E_CodeRef) => ~CodeRefsInBounds(tables)

\* accepted with a code reference equal to the length of a non-empty body
C2_Witness ==
    /\ Accepted
    /\ ~AllArguments(tables, LAMBDA f, a :
          ~(a.tag = "CodeRef" /\ a.x = Len(f.body.code) /\ a.x >= 1))

(***************************************************************************)
(* C3: a module is constructed only if every TypeRef the validator checks  *)
(* (typeref instruction arguments, the type refs of inline-assembly        *)
(* parameter classes) names a key of the Type table and has an index       *)
(* strictly less than that type's entry count.                             *)
(***************************************************************************)
C3_TypeRefsValid ==
    Accepted => TypeRefIdsResolve(tables) /\ TypeIndexesInRange(tables)

\* rejected for an index equal to the entry count of a non-empty type
C3_Witness ==
    /\ RejectedWith(E_TypeIndex)
    /\ ~AllParameters(tables, LAMBDA p :
          \A r \in ClassTypeRefs(p.klass) :
              ~(/\ TypeIdExists(tables, r.type_id)
                /\ r.type_index = Len(tables.types[r.type_id].content)
                /\ r.type_index >= 1))

(***************************************************************************)
(* C4: type ids of declarations (params, return), functions (locals) and   *)
(* data objects.                                                           *)
(***************************************************************************)
\* every violation of the module is of the one kind: all other invariants hold
OnlyViolation(m, Kind(_)) ==
    \A Other \in {"keys", "typeids", "typerefids", "typeindexes", "declarations", "strings",
                  "coderefs", "jumps"} :
        \/ Kind(Other)
        \/ CASE Other = "keys" -> VisitedKeysMatch(m)
             [] Other = "typeids" -> TypeIdsResolve(m)
             [] Other = "typerefids" -> TypeRefIdsResolve(m)
             [] Other = "typeindexes" -> TypeIndexesInRange(m)
             [] Other = "declarations" -> DeclarationIdsResolve(m)
             [] Other = "strings" -> StringIdsResolve(m)
             [] Other = "coderefs" -> CodeRefsInBounds(m)
             [] Other = "jumps" -> JumpTargetsInBounds(m)

\* the module of the concrete scenario, with the declaration's return type
Scenario(result) ==
    IRModule(EmptyMap, EmptyMap, 1 :> IRType(1, <<IRTypeEntry("Int32", None, 0)>>), EmptyMap,
             1 :> IRFunctionDeclaration(1, None, 1, FALSE, result),
             "f" :> IRFunction("f", 1, 1, IRBlock(<<Ret>>)), EmptyMap, EmptyMap)

\* C4 as claimed: a type id that is not a key of the Type table makes
\* construction fail with the "type identifier does not exist" error
C4_Original ==
    Done /\ ~TypeIdsResolve(tables) => RejectedWith(E_TypeId)

\* C4 as amended: such a type id makes construction fail; the error is the
\* "type identifier does not exist" one when the module has no violation of
\* another kind; the scenario module is accepted, and rejected with that
\* error once result is the absent type id 2
C4_TypeIdsResolve ==
    Done =>
        /\ ~TypeIdsResolve(tables) => Rejected
        /\ (/\ ~TypeIdsResolve(tables)
            /\ OnlyViolation(tables, LAMBDA k : k \in {"typeids", "typerefids"}))
              => RejectedWith(E_TypeId)
        /\ tables = Scenario(1) => Accepted
        /\ tables = Scenario(2) => RejectedWith(E_TypeId)

C4_Witness == Done /\ tables = Scenario(2)

(***************************************************************************)
(* C5: declaration ids of functions and of funcref arguments.              *)
(***************************************************************************)
DanglingReferenceErrors == {E_FunctionDeclaration, E_TypeId, E_StringLiteral}

\* C5 as claimed: a declaration id that is not a key of the declaration
\* table makes construction fail with a dangling-reference error; when all
\* resolve, the declaration check does not reject
C5_Original ==
    Done =>
        /\ ~DeclarationIdsResolve(tables)
              => Rejected /\ module_result.msg \in DanglingReferenceErrors
        /\ DeclarationIdsResolve(tables) => ~RejectedWith(E_FunctionDeclaration)

\* C5 as amended: such an id makes construction fail; the error is the
\* dangling-declaration one when the module has no violation of another
\* kind; when all resolve, the declaration check does not reject
C5_DeclarationIdsResolve ==
    Done =>
        /\ ~DeclarationIdsResolve(tables) => Rejected
        /\ (/\ ~DeclarationIdsResolve(tables)
            /\ OnlyViolation(tables, LAMBDA k : k = "declarations"))
              => RejectedWith(E_FunctionDeclaration)
        /\ DeclarationIdsResolve(tables) => ~RejectedWith(E_FunctionDeclaration)

\* rejected for a funcref argument alone: the function's own id resolves
C5_Witness ==
    /\ RejectedWith(E_FunctionDeclaration)
    /\ \A k \in DOMAIN tables.functions :
          tables.functions[k].declaration \in DOMAIN tables.function_declarations
    /\ ~AllArguments(tables, LAMBDA f, a : a.tag # "FunctionRef")

(***************************************************************************)
(* C6: literal ids of string arguments and of literal-based immediates.    *)
(***************************************************************************)
\* no string literals, one function whose body is one string argument of id 5
StringScenario(m) ==
    /\ m.string_literals = EmptyMap
    /\ DOMAIN m.functions = {"f"}
    /\ m.functions["f"].body.code = <<IRInstruction("PushString", Payload(5, 0))>>

\* C6 as claimed: a literal id that is not a key of the string-literal
\* table makes construction fail with the "string literal identifier does
\* not exist" error
C6_Original ==
    Done /\ ~StringIdsResolve(tables) => RejectedWith(E_StringLiteral)

\* C6 as amended: such an id makes construction fail; the error is the
\* "string literal identifier does not exist" one when the module has no
\* violation of another kind; the scenario module is rejected
C6_StringIdsResolve ==
    Done =>
        /\ ~StringIdsResolve(tables) => Rejected
        /\ (/\ ~StringIdsResolve(tables)
            /\ OnlyViolation(tables, LAMBDA k : k = "strings"))
              => RejectedWith(E_StringLiteral)
        /\ StringScenario(tables) => Rejected

C6_Witness == RejectedWith(E_StringLiteral) /\ StringScenario(tables)

(***************************************************************************)
(* C7: in a constructed Module every jump target of every inline-assembly  *)
(* block names a key of the function table and has an offset <= that       *)
(* function's body length; the jump-offset error is reported only for an   *)
(* offset greater than the length (equality is accepted).                  *)
(***************************************************************************)
C7_JumpTargetsInBounds ==
    Done =>
        /\ module_result.tag = "Ok" => JumpTargetsInBounds(module_result.module)
        /\ ~JumpTargetsInBounds(tables) => Rejected
        /\ RejectedWith(E_JumpOffset) =>
              \E a \in DOMAIN tables.inline_asm :
                  \E j \in DOMAIN tables.inline_asm[a].jump_targets :
                      LET target == tables.inline_asm[a].jump_targets[j]
                      IN  /\ target.target_function \in DOMAIN tables.functions
                          /\ target.target_offset
                               > Len(tables.functions[target.target_function].body.code)

\* accepted with a jump target at the one-past-the-end offset of a non-empty body
C7_Witness ==
    /\ Accepted
    /\ \E a \in DOMAIN tables.inline_asm :
          \E j \in DOMAIN tables.inline_asm[a].jump_targets :
              LET target == tables.inline_asm[a].jump_targets[j]
              IN  /\ target.target_offset >= 1
                  /\ target.target_offset
                       = Len(tables.functions[target.target_function].body.code)

(***************************************************************************)
(* C8: tables in which an entry of any of the eight tables is stored under *)
(* a key different from the entity's identifier or name are rejected.      *)
(***************************************************************************)
C8_Original ==
    Done /\ ~(VisitedKeysMatch(tables) /\ OtherKeysMatch(tables)) => Rejected

(***************************************************************************)
(* SpecAsm: the caller has built the parameter and jump-target maps;       *)
(* AsmNew is IRInlineAssembly::new under some iteration order of each.     *)
(***************************************************************************)
\* longest alias list
MaxAliases == 2

Aliases == {"a", "b"}

AliasLists == BoundedSeq(Aliases, MaxAliases)

AliasedParameters(id) ==
    {IRInlineAssemblyParameter(id, aliases, [tag |-> "Read", typeref |-> IRTypeRef(1, 0), index |-> 0],
                               "None") : aliases \in AliasLists}

AliasedJumpTargets(id) ==
    {IRInlineAssemblyJumpTarget(id, aliases, "f", 0) : aliases \in AliasLists}

\* maps of none, one or two entities, each under its own id
KeyedTables(Entities(_)) ==
    {EmptyMap}
    \cup {1 :> e : e \in Entities(1)}
    \cup {(1 :> e1) @@ (2 :> e2) : e1 \in Entities(1), e2 \in Entities(2)}

\* maps with an entity under a key that is not its id
MiskeyedTables(Entities(_)) ==
    {EmptyMap}
    \cup {1 :> e : e \in Entities(1) \cup Entities(2)}
    \cup {(1 :> e1) @@ (2 :> e2) : e1 \in Entities(2), e2 \in Entities(2)}

AliasInputs ==
    { AsmArgs(1, parameters, jump_targets) :
        parameters \in KeyedTables(AliasedParameters),
        jump_targets \in KeyedTables(AliasedJumpTargets) }

OneAlias(Entities(_), id) == {e \in Entities(id) : Len(e.aliases) <= 1}

MiskeyedInputs ==
    { AsmArgs(1, parameters, jump_targets) :
        parameters \in MiskeyedTables(LAMBDA id : OneAlias(AliasedParameters, id)),
        jump_targets \in MiskeyedTables(LAMBDA id : OneAlias(AliasedJumpTargets, id)) }

AsmInputs == AliasInputs \cup MiskeyedInputs

InitAsm ==
    /\ pc = "asm_args"
    /\ asm_args \in AsmInputs
    /\ asm_result = NoAsmResult
    /\ tables = NoTables
    /\ module_result = NoResult
    /\ instr_value = NoValue
    /\ instr_result = NoInstrResult
    /\ document = NoValue
    /\ decode_result = NoResult

AsmNew ==
    /\ pc = "asm_args"
    /\ \E porder \in Orders(asm_args.parameters), jorder \in Orders(asm_args.jump_targets) :
          asm_result' = IRInlineAssembly_new(asm_args, porder, jorder)
    /\ pc' = "asm"
    /\ UNCHANGED <<tables, module_result, asm_args, instr_value, instr_result,
                 document, decode_result>>

NextAsm == AsmNew

SpecAsm == InitAsm /\ [][NextAsm]_vars

AsmDone == pc = "asm"

\* the places an alias is written at: <<kind, key, position in the alias list>>
AliasPlaces(args) ==
    {<<"Parameter", k, i>> : k \in DOMAIN args.parameters, i \in 1..MaxAliases}
    \cup {<<"JumpTarget", k, i>> : k \in DOMAIN args.jump_targets, i \in 1..MaxAliases}

AliasListAt(args, place) ==
    IF place[1] = "Parameter"
    THEN args.parameters[place[2]].aliases
    ELSE args.jump_targets[place[2]].aliases

Written(args, place) == place[3] <= Len(AliasListAt(args, place))

\* one alias string written at two places of the block
RepeatedAlias(args) ==
    \E p, q \in AliasPlaces(args) :
        /\ p # q
        /\ Written(args, p)
        /\ Written(args, q)
        /\ AliasListAt(args, p)[p[3]] = AliasListAt(args, q)[q[3]]

EntityKeysMatch(args) ==
    /\ \A k \in DOMAIN args.parameters : args.parameters[k].id = k
    /\ \A k \in DOMAIN args.jump_targets : args.jump_targets[k].id = k

(***************************************************************************)
(* C9: IRInlineAssembly::new fails whenever one alias string occurs more   *)
(* than once among the alias lists of the block's parameters and jump      *)
(* targets taken together; when all aliases are pairwise distinct it does  *)
(* not fail for aliases, and succeeds if the keys match too.               *)
(***************************************************************************)
C9_RepeatedAliasRejected ==
    AsmDone =>
        /\ RepeatedAlias(asm_args) => asm_result.tag = "Err"
        /\ ~RepeatedAlias(asm_args) => asm_result.msg # E_DupAlias
        /\ ~RepeatedAlias(asm_args) /\ EntityKeysMatch(asm_args) => asm_result.tag = "Ok"

\* rejected for an alias shared by one parameter and one jump target only
C9_Witness ==
    /\ AsmDone
    /\ asm_result.msg = E_DupAlias
    /\ \E p, q \in AliasPlaces(asm_args) :
          /\ p[1] = "Parameter" /\ q[1] = "JumpTarget"
          /\ Written(asm_args, p) /\ Written(asm_args, q)
          /\ AliasListAt(asm_args, p)[p[3]] = AliasListAt(asm_args, q)[q[3]]
    /\ ~RepeatedAlias([asm_args EXCEPT !.jump_targets = EmptyMap])
    /\ ~RepeatedAlias([asm_args EXCEPT !.parameters = EmptyMap])

(***************************************************************************)
(* serde_json::Value.  A Number keeps the representation the parser gave   *)
(* it (PosInt for a non-negative integer, NegInt for a negative one, Float *)
(* for a number written with a fraction or an exponent); a Float holds its *)
(* value in halves.  Word widths are scaled: u32 has U32Bits bits, u64 and *)
(* i64 twice as many.                                                      *)
(***************************************************************************)
U32Bits == 4

U32Range == 2 ^ U32Bits

U64Max == U32Range * U32Range - 1

I64Max == (U32Range * U32Range) \div 2 - 1

Null == [kind |-> "null"]

Bool(b) == [kind |-> "bool", b |-> b]

PosInt(n) == [kind |-> "number", repr |-> "PosInt", n |-> n]

NegInt(n) == [kind |-> "number", repr |-> "NegInt", n |-> n]

Float(halves) == [kind |-> "number", repr |-> "Float", n |-> halves]

String(str) == [kind |-> "string", s |-> str]

Array(items) == [kind |-> "array", items |-> items]

Object(fields) == [kind |-> "object", fields |-> fields]

\* Value::get with a string index
get(value, key) ==
    IF value.kind = "object" /\ key \in DOMAIN value.fields
    THEN Some(value.fields[key])
    ELSE None

is_u64(value) == value.kind = "number" /\ value.repr = "PosInt"

is_i64(value) ==
    /\ value.kind = "number"
    /\ \/ value.repr = "NegInt"
       \/ value.repr = "PosInt" /\ value.n <= I64Max

is_f64(value) == value.kind = "number" /\ value.repr = "Float"

as_u64(value) == IF is_u64(value) THEN Some(value.n) ELSE None

as_i64(value) == IF is_i64(value) THEN Some(value.n) ELSE None

\* in halves
as_f64(value) ==
    IF value.kind # "number"
    THEN None
    ELSE IF value.repr = "Float" THEN Some(value.n) ELSE Some(2 * value.n)

as_str(value) == IF value.kind = "string" THEN Some(value.s) ELSE None

as_bool(value) == IF value.kind = "bool" THEN Some(value.b) ELSE None

is_object(value) == value.kind = "object"

\* Option::map(f).flatten() for f one of the as_ conversions
get_as(value, key, as(_)) ==
    IF get(value, key).some THEN as(get(value, key).v) ELSE None

(***************************************************************************)
(* The payload decoders of the instruction loader.  Each returns           *)
(* Ok(payload) or Err(message).                                            *)
(***************************************************************************)
E_InstrArg == "unable to deserialize IR instruction argument"
E_InstrMemFlags == "unable to deserialize IR instruction memory flags"
E_InstrOpcode == "unable to deserialize IR instruction opcode"

DecodeOk(v) == [tag |-> "Ok", v |-> v]

DecodeErr(msg) == [tag |-> "Err", msg |-> msg]

Panic == [tag |-> "Panic", msg |-> "called Result::unwrap() on an Err value"]

deserialize_instr_u64(value) ==
    LET arg == get(value, "arg")
    IN  IF arg.some /\ is_u64(arg.v)
        THEN DecodeOk([NoPayload EXCEPT !.x = as_u64(arg.v).v])
        ELSE DecodeErr(E_InstrArg)

\* usize is as wide as u64
deserialize_instr_usize(value) ==
    LET arg == get(value, "arg")
    IN  IF arg.some /\ is_u64(arg.v)
        THEN DecodeOk([NoPayload EXCEPT !.x = as_u64(arg.v).v])
        ELSE DecodeErr(E_InstrArg)

deserialize_instr_i64(value) ==
    LET arg == get(value, "arg")
    IN  IF arg.some /\ is_i64(arg.v)
        THEN DecodeOk([NoPayload EXCEPT !.x = as_i64(arg.v).v])
        ELSE DecodeErr(E_InstrArg)

deserialize_instr_f64(value) ==
    LET arg == get(value, "arg")
    IN  IF arg.some /\ is_f64(arg.v)
        THEN DecodeOk([NoPayload EXCEPT !.x = as_f64(arg.v).v])
        ELSE DecodeErr(E_InstrArg)

\* the halves the model draws are exact in f32 as well
deserialize_instr_f32(value) ==
    LET arg == get(value, "arg")
    IN  IF arg.some /\ is_f64(arg.v)
        THEN DecodeOk([NoPayload EXCEPT !.x = as_f64(arg.v).v])
        ELSE DecodeErr(E_InstrArg)

\* "as u32" keeps the low 32 bits
deserialize_instr_u32(value) ==
    LET arg == get(value, "arg")
    IN  IF /\ arg.some
           /\ arg.v.kind = "array"
           /\ Len(arg.v.items) = 2
           /\ is_u64(arg.v.items[1])
           /\ is_u64(arg.v.items[2])
        THEN DecodeOk([NoPayload EXCEPT !.x = as_u64(arg.v.items[1]).v % U32Range,
                                        !.y = as_u64(arg.v.items[2]).v % U32Range])
        ELSE DecodeErr(E_InstrArg)

deserialize_instr_bool(value) ==
    LET arg == get(value, "arg")
    IN  IF arg.some /\ arg.v.kind = "bool"
        THEN DecodeOk([NoPayload EXCEPT !.b = arg.v.b])
        ELSE DecodeErr(E_InstrArg)

deserialize_instr_typeref(value) ==
    LET arg == get(value, "arg")
    IN  IF ~arg.some
        THEN DecodeErr(E_InstrArg)
        ELSE LET type_id == get_as(arg.v, "type", as_u64)
                 type_index == get_as(arg.v, "index", as_u64)
             IN  IF ~type_id.some \/ ~type_index.some
                 THEN DecodeErr(E_InstrArg)
                 ELSE DecodeOk([NoPayload EXCEPT !.x = type_id.v, !.y = type_index.v])

deserialize_instr_identifier(value) ==
    LET arg == get(value, "arg")
    IN  IF arg.some /\ get(arg.v, "data").some
        THEN LET identifier == get_as(arg.v, "data", as_str)
             IN  IF ~identifier.some
                 THEN DecodeErr(E_InstrArg)
                 ELSE DecodeOk([NoPayload EXCEPT !.s = identifier.v])
        ELSE DecodeErr(E_InstrArg)

\* deserialize_instr_funcref that reads the name as an optional string of
\* any kind: a name that is no string means no name
deserialize_instr_funcref_lenient(value) ==
    LET arg == get(value, "arg")
    IN  IF arg.some /\ get(arg.v, "identifier").some
        THEN LET identifier == get_as(arg.v, "identifier", as_u64)
                 name == get_as(arg.v, "name", as_str)
             IN  IF ~identifier.some
                 THEN DecodeErr(E_InstrArg)
                 ELSE IF name.some
                      THEN DecodeOk([NoPayload EXCEPT !.x = identifier.v, !.b = TRUE,
                                                      !.s = name.v])
                      ELSE DecodeOk([NoPayload EXCEPT !.x = identifier.v])
        ELSE DecodeErr(E_InstrArg)

deserialize_instr_funcref(value) ==
    LET arg == get(value, "arg")
    IN  IF arg.some /\ get(arg.v, "identifier").some
        THEN LET identifier == get_as(arg.v, "identifier", as_u64)
                 name == get(arg.v, "name")
             IN  IF ~identifier.some
                 THEN DecodeErr(E_InstrArg)
                 ELSE IF name.some /\ name.v.kind = "string"
                      THEN DecodeOk([NoPayload EXCEPT !.x = identifier.v, !.b = TRUE,
                                                      !.s = name.v.s])
                      ELSE IF ~name.some \/ name.v.kind = "null"
                           THEN DecodeOk([NoPayload EXCEPT !.x = identifier.v])
                           ELSE DecodeErr(E_InstrArg)
        ELSE DecodeErr(E_InstrArg)

\* deserialize_instr_memflags that takes the flags from "arg" when the record
\* has one
deserialize_instr_memflags_arg(value) ==
    LET flags == IF get(value, "arg").some THEN get(value, "arg")
                 ELSE get(value, "memory_flags")
    IN  IF flags.some /\ is_object(flags.v)
        THEN LET volatile_flag == get_as(flags.v, "volatile", as_bool)
             IN  IF ~volatile_flag.some
                 THEN DecodeErr(E_InstrMemFlags)
                 ELSE DecodeOk([NoPayload EXCEPT !.b = volatile_flag.v])
        ELSE DecodeErr(E_InstrArg)

deserialize_instr_memflags(value) ==
    LET flags == get(value, "memory_flags")
    IN  IF flags.some /\ is_object(flags.v)
        THEN LET volatile_flag == get_as(flags.v, "volatile", as_bool)
             IN  IF ~volatile_flag.some
                 THEN DecodeErr(E_InstrMemFlags)
                 ELSE DecodeOk([NoPayload EXCEPT !.b = volatile_flag.v])
        ELSE DecodeErr(E_InstrArg)

\* the arm the generator writes for an opcode of the registry
deserialize_payload(klass, value) ==
    CASE klass = "none" -> DecodeOk(NoPayload)
      [] klass = "i64" -> deserialize_instr_i64(value)
      [] klass \in {"u64", "string"} -> deserialize_instr_u64(value)
      [] klass = "coderef" -> deserialize_instr_usize(value)
      [] klass = "u32" -> deserialize_instr_u32(value)
      [] klass = "funcref" -> deserialize_instr_funcref(value)
      [] klass = "identifier" -> deserialize_instr_identifier(value)
      [] klass = "typeref" -> deserialize_instr_typeref(value)
      [] klass = "f32" -> deserialize_instr_f32(value)
      [] klass = "f64" -> deserialize_instr_f64(value)
      [] klass = "bool" -> deserialize_instr_bool(value)
      [] klass = "memflags" -> deserialize_instr_memflags(value)

Mnemonics == {o.mnemonic : o \in Opcodes}

\* deserialize_instruction with each arm building the last variant of its
\* payload class, not the variant of its own opcode
deserialize_instruction_by_class(opcode_sym, value) ==
    IF opcode_sym \in Mnemonics
    THEN LET opcode == CHOOSE o \in Opcodes : o.mnemonic = opcode_sym
             variant == CHOOSE o \in Opcodes :
                            /\ o.klass = opcode.klass
                            /\ \A q \in Opcodes : q.klass = o.klass => q.code <= o.code
             payload == deserialize_payload(opcode.klass, value)
         IN  IF payload.tag = "Ok"
             THEN DecodeOk(IRInstruction(variant.identifier, payload.v))
             ELSE payload
    ELSE Panic

\* the generated deserialize_instruction: one arm per mnemonic, and a last
\* arm that unwraps an Err
deserialize_instruction(opcode_sym, value) ==
    IF opcode_sym \in Mnemonics
    THEN LET opcode == CHOOSE o \in Opcodes : o.mnemonic = opcode_sym
             payload == deserialize_payload(opcode.klass, value)
         IN  IF payload.tag = "Ok"
             THEN DecodeOk(IRInstruction(opcode.identifier, payload.v))
             ELSE payload
    ELSE Panic

\* Deserialize for IRInstruction
IRInstruction_deserialize(value) ==
    LET opcode == get_as(value, "opcode", as_str)
    IN  IF ~opcode.some
        THEN DecodeErr(E_InstrOpcode)
        ELSE deserialize_instruction(opcode.v, value)

(***************************************************************************)
(* SpecInstr: one instruction record; Deserialize decodes it.              *)
(***************************************************************************)
Field(key, values) == {EmptyMap} \cup {key :> v : v \in values}

OpcodeValues == {String(m) : m \in Mnemonics \cup {"bogus", ""}} \cup {PosInt(1), Null}

Numbers ==
    {PosInt(n) : n \in {0, 1, 5, U32Range - 1, U32Range, I64Max, I64Max + 1, U64Max}}
    \cup {NegInt(0 - 1), Float(2), Float(3)}

Scalars == {Null, Bool(TRUE), Bool(FALSE), String("x"), PosInt(1), NegInt(0 - 1), Float(3)}

ArgValues ==
    Numbers
    \cup Scalars
    \cup {Array(items) : items \in BoundedSeq({PosInt(1), PosInt(U32Range + 1), String("x")}, 2)}
    \cup {Object(type @@ index) :
            type \in Field("type", {PosInt(1), String("x")}),
            index \in Field("index", {PosInt(0), NegInt(0 - 1)})}
    \cup {Object(data) : data \in Field("data", {String("x"), PosInt(1)})}
    \cup {Object(identifier @@ name) :
            identifier \in Field("identifier", {PosInt(1), String("x")}),
            name \in Field("name", {String("x"), Null, PosInt(1), Bool(TRUE), Array(<<>>),
                                     Object([x |-> Null])})}

MemoryFlagsValues ==
    {Bool(TRUE)} \cup {Object(volatile) : volatile \in Field("volatile", {Bool(TRUE), Bool(FALSE), PosInt(1)})}

InstrValues ==
    {String("ret")}
    \cup {Object(opcode @@ arg @@ memory_flags) :
            opcode \in Field("opcode", OpcodeValues),
            arg \in Field("arg", ArgValues),
            memory_flags \in Field("memory_flags", MemoryFlagsValues)}

InitInstr ==
    /\ pc = "instr_value"
    /\ instr_value \in InstrValues
    /\ instr_result = NoInstrResult
    /\ document = NoValue
    /\ decode_result = NoResult
    /\ tables = NoTables
    /\ module_result = NoResult
    /\ asm_args = NoAsmArgs
    /\ asm_result = NoAsmResult

Deserialize ==
    /\ pc = "instr_value"
    /\ instr_result' = IRInstruction_deserialize(instr_value)
    /\ pc' = "instr"
    /\ UNCHANGED <<tables, module_result, asm_args, asm_result, instr_value,
                 document, decode_result>>

NextInstr == Deserialize

SpecInstr == InitInstr /\ [][NextInstr]_vars

InstrDone == pc = "instr"

\* the record names a mnemonic, registered or not
HasMnemonic(value) == get_as(value, "opcode", as_str).some

\* the mnemonic the record names
MnemonicOf(value) == get_as(value, "opcode", as_str).v

\* the payload of the record does not decode under the shape of the opcode
\* its mnemonic is registered for
PayloadMismatch(value) ==
    /\ MnemonicOf(value) \in Mnemonics
    /\ LET opcode == CHOOSE o \in Opcodes : o.mnemonic = MnemonicOf(value)
       IN  deserialize_payload(opcode.klass, value).tag = "Err"

(***************************************************************************)
(* C10: decoding an instruction record whose mnemonic is not registered    *)
(* returns a decode error to the caller, and so does decoding a record     *)
(* whose mnemonic is registered and whose payload does not match the       *)
(* shape of its opcode.                                                    *)
(***************************************************************************)
C10_Original ==
    InstrDone /\ HasMnemonic(instr_value) =>
        /\ MnemonicOf(instr_value) \notin Mnemonics => instr_result.tag = "Err"
        /\ PayloadMismatch(instr_value) => instr_result.tag = "Err"

(***************************************************************************)
(* The module loader: Deserialize for each IR entity, over a parsed        *)
(* serde_json::Value.  A decoder returns DecodeOk(entity) or               *)
(* DecodeErr(message); a panic below it unwinds through it.                *)
(***************************************************************************)
as_array(value) == IF value.kind = "array" THEN Some(value.items) ELSE None

\* the position of the first result that is not Ok, 0 when all are
RECURSIVE first_failure(_, _)
first_failure(results, i) ==
    IF i > Len(results)
    THEN 0
    ELSE IF results[i].tag # "Ok" THEN i ELSE first_failure(results, i + 1)

\* Iterator::collect::<Result<Vec<_>, _>>: the elements are decoded in order
\* up to the first that fails
collect(results) ==
    LET i == first_failure(results, 1)
    IN  IF i = 0
        THEN DecodeOk([k \in 1..Len(results) |-> results[k].v])
        ELSE results[i]

\* a collect that keeps the first of the pairs of one key
RECURSIVE into_map_first(_, _, _)
into_map_first(keys, entities, i) ==
    IF i = 0
    THEN EmptyMap
    ELSE into_map_first(keys, entities, i - 1) @@ (keys[i] :> entities[i])

\* collect::<HashMap<_, _>> of the entities under their keys (keys[i] the key
\* of entities[i]): a later pair replaces an earlier one of the same key
RECURSIVE into_map(_, _, _)
into_map(keys, entities, i) ==
    IF i = 0
    THEN EmptyMap
    ELSE (keys[i] :> entities[i]) @@ into_map(keys, entities, i - 1)

E_SymbolIdentifier == "unable to deserialize IR symbol identifier"
E_SymbolType == "unable to deserialize IR symbol type"
E_Block == "unable to deserialize IR block"
E_Type == "unable to deserialize IR type"
E_TypeEntry == "unable to deserialize IR type entry"

\* Deserialize for IRSymbol
IRSymbol_deserialize(value) ==
    LET identifier == get_as(value, "identifier", as_str)
        type == get_as(value, "type", as_str)
    IN  IF ~identifier.some
        THEN DecodeErr(E_SymbolIdentifier)
        ELSE IF type.some /\ type.v = "global"
             THEN DecodeOk(IRSymbol("Global", identifier.v))
             ELSE IF type.some /\ type.v = "thread_local"
                  THEN DecodeOk(IRSymbol("ThreadLocal", identifier.v))
                  ELSE DecodeErr(E_SymbolType)

\* Deserialize for IRBlock
IRBlock_deserialize(value) ==
    LET arr == as_array(value)
    IN  IF ~arr.some
        THEN DecodeErr(E_Block)
        ELSE LET instrs == collect([i \in 1..Len(arr.v) |-> IRInstruction_deserialize(arr.v[i])])
             IN  IF instrs.tag = "Ok" THEN DecodeOk(IRBlock(instrs.v)) ELSE instrs

\* the type tags of the entries that have no field but the alignment
ScalarTypeTags ==
    [int8 |-> "Int8", int16 |-> "Int16", int32 |-> "Int32", int64 |-> "Int64",
     bool |-> "Bool", char |-> "Char", short |-> "Short", int |-> "Int", long |-> "Long",
     word |-> "Word", float |-> "Float32", double |-> "Float64",
     long_double |-> "LongDouble"]

\* the state of output_fn's vector between two calls of it
TypeOk(out) == [tag |-> "Ok", out |-> out]

RECURSIVE deserialize_typeentry(_, _)
RECURSIVE deserialize_typeentries(_, _, _)

\* the elements visited back to front: the flattening of another order of
\* the children
RECURSIVE deserialize_typeentries_reversed(_, _, _)
deserialize_typeentries_reversed(arr, i, out) ==
    IF i < 1
    THEN TypeOk(out)
    ELSE LET r == deserialize_typeentry(arr[i], out)
         IN  IF r.tag # "Ok" THEN r ELSE deserialize_typeentries_reversed(arr, i - 1, r.out)

deserialize_typeentry_array_reversed(value, out) ==
    LET arr == as_array(value)
    IN  IF ~arr.some
        THEN DecodeErr(E_Type)
        ELSE deserialize_typeentries_reversed(arr.v, Len(arr.v), out)

\* IRType::deserialize_typeentry_array, with the entries pushed so far
deserialize_typeentry_array(value, out) ==
    LET arr == as_array(value)
    IN  IF ~arr.some THEN DecodeErr(E_Type) ELSE deserialize_typeentries(arr.v, 1, out)

\* its try_for_each, from element i on
deserialize_typeentries(arr, i, out) ==
    IF i > Len(arr)
    THEN TypeOk(out)
    ELSE LET r == deserialize_typeentry(arr[i], out)
         IN  IF r.tag # "Ok" THEN r ELSE deserialize_typeentries(arr, i + 1, r.out)

\* IRType::deserialize_typeentry, with the entries pushed so far
deserialize_typeentry(typeentry_value, out) ==
    LET alignment == get_as(typeentry_value, "alignment", as_u64)
        type == get_as(typeentry_value, "type", as_str)
    IN  IF ~type.some
        THEN DecodeErr(E_TypeEntry)
        ELSE CASE type.v \in DOMAIN ScalarTypeTags ->
                    TypeOk(Append(out, IRTypeEntry(ScalarTypeTags[type.v], alignment, 0)))
               [] type.v = "bits" ->
                    LET width == get_as(typeentry_value, "width", as_u64)
                    IN  IF ~width.some
                        THEN DecodeErr(E_TypeEntry)
                        ELSE TypeOk(Append(out, IRTypeEntry("Bits", alignment, width.v)))
               [] type.v = "builtin" ->
                    LET class == get_as(typeentry_value, "class", as_str)
                    IN  IF class.some /\ class.v = "vararg"
                        THEN TypeOk(Append(out, IRTypeEntry("Builtin", alignment, 0)))
                        ELSE DecodeErr(E_TypeEntry)
               [] type.v \in {"struct", "union"} ->
                    LET fields == get(typeentry_value, "fields")
                        variant == IF type.v = "struct" THEN "Struct" ELSE "Union"
                    IN  IF ~fields.some \/ ~as_array(fields.v).some
                        THEN DecodeErr(E_TypeEntry)
                        ELSE deserialize_typeentry_array(fields.v,
                                 Append(out, IRTypeEntry(variant, alignment,
                                                         Len(as_array(fields.v).v))))
               [] type.v = "array" ->
                    LET length == get_as(typeentry_value, "length", as_u64)
                        element_type == get(typeentry_value, "element_type")
                    IN  IF ~length.some \/ ~element_type.some
                        THEN DecodeErr(E_TypeEntry)
                        ELSE deserialize_typeentry(element_type.v,
                                 Append(out, IRTypeEntry("Array", alignment, length.v)))
               [] OTHER -> DecodeErr(E_TypeEntry)

\* Deserialize for IRType
IRType_deserialize(value) ==
    LET identifier == get_as(value, "identifier", as_u64)
        type == get(value, "type")
    IN  IF ~identifier.some \/ ~type.some
        THEN DecodeErr(E_Type)
        ELSE LET type_content == deserialize_typeentry_array(type.v, <<>>)
             IN  IF type_content.tag = "Ok"
                 THEN DecodeOk(IRType(identifier.v, type_content.out))
                 ELSE type_content

E_DeclIdentifier == "unable to deserialize IR function declaration identifier"
E_DeclParameters == "unable to deserialize IR function declaration parameters"
E_DeclVararg == "unable to deserialize IR function declaration vararg"
E_FunctionIdentifier == "unable to deserialize IR function identifier"
E_FunctionName == "unable to deserialize IR function name"
E_FunctionLocals == "unable to deserialize IR function locals"
E_FunctionBody == "unable to deserialize IR function body"

\* Deserialize for IRFunctionDeclaration
IRFunctionDeclaration_deserialize(value) ==
    LET identifier == get_as(value, "identifier", as_u64)
        name == get_as(value, "name", as_str)
        params == get_as(value, "parameters", as_u64)
        vararg == get_as(value, "vararg", as_bool)
        returns == get_as(value, "returns", as_u64)
    IN  IF ~identifier.some
        THEN DecodeErr(E_DeclIdentifier)
        ELSE IF ~params.some
             THEN DecodeErr(E_DeclParameters)
             ELSE IF ~vararg.some
                  THEN DecodeErr(E_DeclVararg)
                  ELSE IF ~returns.some
                       THEN DecodeErr(E_DeclIdentifier)
                       ELSE DecodeOk(IRFunctionDeclaration(identifier.v, name, params.v,
                                                           vararg.v, returns.v))

\* Deserialize for IRFunction
IRFunction_deserialize(value) ==
    LET identifier == get_as(value, "identifier", as_u64)
        name == get_as(value, "name", as_str)
        locals == get_as(value, "locals", as_u64)
        body_value == get(value, "body")
    IN  IF ~identifier.some
        THEN DecodeErr(E_FunctionIdentifier)
        ELSE IF ~name.some
             THEN DecodeErr(E_FunctionName)
             ELSE IF ~locals.some
                  THEN DecodeErr(E_FunctionLocals)
                  ELSE IF ~body_value.some
                       THEN DecodeErr(E_FunctionBody)
                       ELSE LET body == IRBlock_deserialize(body_value.v)
                            IN  IF body.tag = "Ok"
                                THEN DecodeOk(IRFunction(name.v, identifier.v, locals.v, body.v))
                                ELSE body

(***************************************************************************)
(* IRDataElement values.  One record for all variants; a variant leaves    *)
(* the fields it does not have at their defaults:                          *)
(*   n      - Undefined's count, Integer's value, the floats' value (in    *)
(*            halves), StringPointer's base                                *)
(*   s      - String's bytes (kept as the string they encode), Pointer's   *)
(*            base                                                         *)
(*   offset - the offset of Pointer and StringPointer                      *)
(*   raw    - Raw's bytes                                                  *)
(***************************************************************************)
\* scaled widths of u8 and u16
U8Bits == 2

U16Bits == 3

U8Range == 2 ^ U8Bits

U16Range == 2 ^ U16Bits

IRDataElement(variant) == [variant |-> variant, n |-> 0, s |-> "", offset |-> 0, raw |-> <<>>]

E_DataInteger == "unable to deserialize IR integral data value"
E_DataFloat == "unable to deserialize IR floating-point data value"
E_DataString == "unable to deserialize IR string data value"
E_DataPointer == "unable to deserialize IR pointer data value"
E_DataRaw == "unable to deserialize IR raw data"
E_DataElement == "unable to deserialize IR data element"
E_DataIdentifier == "unable to deserialize IR data identifier"
E_DataStorage == "unable to deserialize IR data storage specifier"
E_DataType == "unable to deserialize IR data type"
E_Data == "unable to deserialize IR data"

\* Deserialize for IRDataElement
IRDataElement_deserialize(value) ==
    LET class == get_as(value, "class", as_str)
    IN  IF ~class.some
        THEN DecodeErr(E_DataElement)
        ELSE CASE class.v = "undefined" ->
                    LET count == get_as(value, "count", as_u64)
                    IN  DecodeOk([IRDataElement("Undefined") EXCEPT
                                     !.n = IF count.some THEN count.v ELSE 1])
               [] class.v = "aggregate" -> DecodeOk(IRDataElement("Aggregate"))
               [] class.v = "integer" ->
                    LET v == get_as(value, "value", as_i64)
                    IN  IF ~v.some
                        THEN DecodeErr(E_DataInteger)
                        ELSE DecodeOk([IRDataElement("Integer") EXCEPT !.n = v.v])
               [] class.v \in {"float32", "float64", "long_double"} ->
                    LET v == get_as(value, "value", as_f64)
                        variant == CASE class.v = "float32" -> "Float32"
                                     [] class.v = "float64" -> "Float64"
                                     [] OTHER -> "LongDouble"
                    IN  IF ~v.some
                        THEN DecodeErr(E_DataFloat)
                        ELSE DecodeOk([IRDataElement(variant) EXCEPT !.n = v.v])
               [] class.v = "string" ->
                    LET content == get_as(value, "content", as_str)
                    IN  IF ~content.some
                        THEN DecodeErr(E_DataString)
                        ELSE DecodeOk([IRDataElement("String") EXCEPT !.s = content.v])
               [] class.v = "pointer" ->
                    LET base == get_as(value, "reference", as_str)
                        offset == get_as(value, "offset", as_i64)
                    IN  IF ~base.some \/ ~offset.some
                        THEN DecodeErr(E_DataPointer)
                        ELSE DecodeOk([IRDataElement("Pointer") EXCEPT
                                         !.s = base.v, !.offset = offset.v])
               [] class.v = "string_pointer" ->
                    LET base == get_as(value, "string", as_u64)
                        offset == get_as(value, "offset", as_i64)
                    IN  IF ~base.some \/ ~offset.some
                        THEN DecodeErr(E_DataPointer)
                        ELSE DecodeOk([IRDataElement("StringPointer") EXCEPT
                                         !.n = base.v, !.offset = offset.v])
               [] class.v = "raw" ->
                    LET arr == get_as(value, "value", as_array)
                    IN  IF ~arr.some \/ (\E i \in 1..Len(arr.v) : ~is_u64(arr.v[i]))
                        THEN DecodeErr(E_DataRaw)
                        ELSE DecodeOk([IRDataElement("Raw") EXCEPT
                                         !.raw = [i \in 1..Len(arr.v) |-> arr.v[i].n % U8Range]])
               [] OTHER -> DecodeErr(E_DataElement)

\* Deserialize for IRData
IRData_deserialize(value) ==
    LET identifier == get_as(value, "identifier", as_str)
        storage == get_as(value, "storage", as_str)
        type_id == get_as(value, "type", as_u64)
        arr == get_as(value, "value", as_array)
    IN  IF ~identifier.some
        THEN DecodeErr(E_DataIdentifier)
        ELSE IF ~storage.some \/ storage.v \notin {"global", "thread_local"}
             THEN DecodeErr(E_DataStorage)
             ELSE IF ~type_id.some
                  THEN DecodeErr(E_DataType)
                  ELSE IF ~arr.some
                       THEN DecodeErr(E_Data)
                       ELSE LET data == collect([i \in 1..Len(arr.v) |->
                                                   IRDataElement_deserialize(arr.v[i])])
                            IN  IF data.tag = "Ok"
                                THEN DecodeOk(IRData(identifier.v,
                                          IF storage.v = "global" THEN "Global" ELSE "ThreadLocal",
                                          type_id.v, data.v))
                                ELSE data

E_StringLiteralDecode == "unable to deserialize IR string literal"
E_StringLiteralContent == "unable to deserialize IR string literal content"

\* IRStringLiteralContent: Multibyte keeps its bytes as the string they
\* encode in s, Unicode16 and Unicode32 their units in units
IRStringLiteralContent(variant, s, units) == [variant |-> variant, s |-> s, units |-> units]

\* Deserialize for IRStringLiteral
IRStringLiteral_deserialize(value) ==
    LET identifier == get_as(value, "id", as_u64)
        public == get_as(value, "public", as_bool)
        type == get_as(value, "type", as_str)
    IN  IF ~identifier.some \/ ~public.some
        THEN DecodeErr(E_StringLiteralDecode)
        ELSE IF ~type.some
             THEN DecodeErr(E_StringLiteralContent)
             ELSE CASE type.v = "multibyte" ->
                         LET literal == get_as(value, "literal", as_str)
                         IN  IF ~literal.some
                             THEN DecodeErr(E_StringLiteralContent)
                             ELSE DecodeOk(IRStringLiteral(identifier.v, public.v,
                                      IRStringLiteralContent("Multibyte", literal.v, <<>>)))
                    [] type.v \in {"unicode16", "unicode32"} ->
                         LET literal == get_as(value, "literal", as_array)
                             range == IF type.v = "unicode16" THEN U16Range ELSE U32Range
                             variant == IF type.v = "unicode16" THEN "Unicode16" ELSE "Unicode32"
                         IN  IF ~literal.some \/ (\E i \in 1..Len(literal.v) : ~is_u64(literal.v[i]))
                             THEN DecodeErr(E_StringLiteralContent)
                             ELSE DecodeOk(IRStringLiteral(identifier.v, public.v,
                                      IRStringLiteralContent(variant, "",
                                          [i \in 1..Len(literal.v) |-> literal.v[i].n % range])))
                    [] OTHER -> DecodeErr(E_StringLiteralContent)

E_AsmClass == "unable to deserialize IR inline assembly class"
E_AsmIdentifier == "unable to deserialize IR inline assembly identifier"
E_AsmProperties == "unable to deserialize IR inline assembly properties"
E_AsmTemplate == "unable to deserialize IR inline assembly template"
E_AsmParameters == "unable to deserialize IR inline assembly parameters"
E_AsmParameterIdentifier == "unable to deserialize IR inline assembly parameter identifier"
E_AsmParameterAliases == "unable to deserialize IR inline assembly parameter aliases"
E_AsmClobbers == "unable to deserialize IR inline assembly clobbers"
E_AsmJumpTargets == "unable to deserialize IR inline assembly jump targets"
E_AsmJumpTarget == "unable to deserialize IR inline assembly jump target"

\* IRInlineAssembly::deserialize_param_class
deserialize_param_class(param_value, type_field, type_index_field, index_field) ==
    LET type_id == get_as(param_value, type_field, as_u64)
        type_index == get_as(param_value, type_index_field, as_u64)
        index == get_as(param_value, index_field, as_u64)
    IN  IF ~type_id.some \/ ~type_index.some \/ ~index.some
        THEN DecodeErr(E_AsmClass)
        ELSE DecodeOk([typeref |-> IRTypeRef(type_id.v, type_index.v), index |-> index.v])

\* the "immediate" arm of the class match
deserialize_immediate(param_value) ==
    LET type_id == get_as(param_value, "type", as_u64)
        type_index == get_as(param_value, "type_index", as_u64)
        imm_value == get_as(param_value, "value", as_i64)
        variant == get_as(param_value, "variant", as_str)
    IN  IF ~type_id.some \/ ~type_index.some \/ ~imm_value.some
        THEN DecodeErr(E_AsmClass)
        ELSE LET type_ref == IRTypeRef(type_id.v, type_index.v)
             IN  IF variant.some /\ variant.v = "identifier_based"
                 THEN IF as_str(param_value).some
                      THEN DecodeOk([tag |-> "ImmediateIdentifierBased", typeref |-> type_ref,
                                     name |-> as_str(param_value).v, value |-> imm_value.v])
                      ELSE DecodeOk([tag |-> "ImmediateConstant", typeref |-> type_ref,
                                     value |-> imm_value.v])
                 ELSE IF variant.some /\ variant.v = "literal_based"
                      THEN IF as_u64(param_value).some
                           THEN DecodeOk([tag |-> "ImmediateLiteralBased", typeref |-> type_ref,
                                          literal_id |-> as_u64(param_value).v,
                                          value |-> imm_value.v])
                           ELSE DecodeErr(E_AsmClass)
                      ELSE DecodeErr(E_AsmClass)

\* the "read_store" arm with the to side read from the to fields
deserialize_read_store_to(param_value) ==
    LET from == deserialize_param_class(param_value, "from_type", "from_type_index", "from")
        to == deserialize_param_class(param_value, "to_type", "to_type_index", "to")
    IN  IF from.tag # "Ok"
        THEN from
        ELSE IF to.tag # "Ok"
             THEN to
             ELSE DecodeOk([tag |-> "ReadStore",
                            typeref1 |-> from.v.typeref, index1 |-> from.v.index,
                            typeref2 |-> to.v.typeref, index2 |-> to.v.index])

\* the "read_store" arm of the class match: both sides are read from the
\* from fields
deserialize_read_store(param_value) ==
    LET from == deserialize_param_class(param_value, "from_type", "from_type_index", "from")
        to == deserialize_param_class(param_value, "from_type", "from_type_index", "from")
    IN  IF from.tag # "Ok"
        THEN from
        ELSE IF to.tag # "Ok"
             THEN to
             ELSE DecodeOk([tag |-> "ReadStore",
                            typeref1 |-> from.v.typeref, index1 |-> from.v.index,
                            typeref2 |-> to.v.typeref, index2 |-> to.v.index])

\* the class match of a parameter record
deserialize_class(param_value) ==
    LET class == get_as(param_value, "class", as_str)
    IN  IF ~class.some
        THEN DecodeErr(E_AsmClass)
        ELSE CASE class.v \in {"read", "load", "store", "load_store"} ->
                    LET index_field == CASE class.v = "store" -> "to"
                                         [] class.v = "load_store" -> "from_to"
                                         [] OTHER -> "from"
                        tag == CASE class.v = "read" -> "Read"
                                 [] class.v = "load" -> "Load"
                                 [] class.v = "store" -> "Store"
                                 [] OTHER -> "LoadStore"
                        r == deserialize_param_class(param_value, "type", "type_index", index_field)
                    IN  IF r.tag # "Ok"
                        THEN r
                        ELSE DecodeOk([tag |-> tag, typeref |-> r.v.typeref, index |-> r.v.index])
               [] class.v = "read_store" -> deserialize_read_store(param_value)
               [] class.v = "immediate" -> deserialize_immediate(param_value)
               [] OTHER -> DecodeErr(E_AsmClass)

ConstraintTags ==
    [none |-> "None", register |-> "Register", memory |-> "Memory",
     register_memory |-> "RegisterMemory"]

\* a "names" array, err the message of its entity
deserialize_aliases(entity_value, err) ==
    LET names == get_as(entity_value, "names", as_array)
    IN  IF ~names.some \/ (\E i \in 1..Len(names.v) : ~as_str(names.v[i]).some)
        THEN DecodeErr(err)
        ELSE DecodeOk([i \in 1..Len(names.v) |-> names.v[i].s])

\* the closure over one parameter record
deserialize_parameter(param_value) ==
    LET param_id == get_as(param_value, "identifier", as_u64)
        param_aliases == deserialize_aliases(param_value, E_AsmParameterAliases)
        param_class == deserialize_class(param_value)
        param_constraint == get_as(param_value, "constraint", as_str)
    IN  IF ~param_id.some
        THEN DecodeErr(E_AsmParameterIdentifier)
        ELSE IF param_aliases.tag # "Ok"
             THEN param_aliases
             ELSE IF param_class.tag # "Ok"
                  THEN param_class
                  ELSE IF ~param_constraint.some
                          \/ param_constraint.v \notin DOMAIN ConstraintTags
                       THEN DecodeErr(E_AsmClass)
                       ELSE DecodeOk(IRInlineAssemblyParameter(param_id.v, param_aliases.v,
                                param_class.v, ConstraintTags[param_constraint.v]))

\* the closure over one jump target record
deserialize_jump_target(jump_elem) ==
    LET jump_identifier == get_as(jump_elem, "identifier", as_u64)
        jump_aliases == deserialize_aliases(jump_elem, E_AsmJumpTarget)
        jump_function == get_as(jump_elem, "function", as_str)
        jump_target == get_as(jump_elem, "target", as_u64)
    IN  IF ~jump_identifier.some
           \/ jump_aliases.tag # "Ok"
           \/ ~jump_function.some
           \/ ~jump_target.some
        THEN DecodeErr(E_AsmJumpTarget)
        ELSE DecodeOk(IRInlineAssemblyJumpTarget(jump_identifier.v, jump_aliases.v,
                                                 jump_function.v, jump_target.v))

\* the arguments Deserialize for IRInlineAssembly passes to new, with the
\* results of decoding its parameters and its jump targets
asm_args_of(value, parameters, jump_targets) ==
    LET identifier == get_as(value, "identifier", as_u64)
        global == get_as(value, "global", as_bool)
        template == get_as(value, "template", as_str)
        parameter_values == get_as(value, "parameters", as_array)
        clobber_values == get_as(value, "clobbers", as_array)
        jump_values == get_as(value, "jump_targets", as_array)
    IN  IF ~identifier.some
        THEN DecodeErr(E_AsmIdentifier)
        ELSE IF ~global.some
        THEN DecodeErr(E_AsmProperties)
        ELSE IF ~template.some
        THEN DecodeErr(E_AsmTemplate)
        ELSE IF ~parameter_values.some
        THEN DecodeErr(E_AsmParameters)
        ELSE IF parameters.tag # "Ok"
        THEN parameters
        ELSE IF ~clobber_values.some
                \/ (\E i \in 1..Len(clobber_values.v) : ~as_str(clobber_values.v[i]).some)
        THEN DecodeErr(E_AsmClobbers)
        ELSE IF ~jump_values.some
        THEN DecodeErr(E_AsmJumpTargets)
        ELSE IF jump_targets.tag # "Ok"
        THEN jump_targets
        ELSE DecodeOk(
                [id |-> identifier.v, global |-> global.v, template |-> template.v,
                 parameters |-> into_map([i \in 1..Len(parameters.v) |-> parameters.v[i].id],
                                         parameters.v, Len(parameters.v)),
                 clobbers |-> {clobber_values.v[i].s : i \in 1..Len(clobber_values.v)},
                 jump_targets |-> into_map([i \in 1..Len(jump_targets.v) |-> jump_targets.v[i].id],
                                           jump_targets.v, Len(jump_targets.v))])

\* the parameter records and the jump target records are decoded in order,
\* each up to the first that fails
deserialize_asm_args(value) ==
    asm_args_of(value,
                collect([i \in 1..Len(get_as(value, "parameters", as_array).v) |->
                           deserialize_parameter(get_as(value, "parameters", as_array).v[i])]),
                collect([i \in 1..Len(get_as(value, "jump_targets", as_array).v) |->
                           deserialize_jump_target(
                               get_as(value, "jump_targets", as_array).v[i])]))

\* IRInlineAssembly::new over the decoded arguments: the results the
\* iteration orders of the two maps allow
new_of(args) ==
    IF args.tag # "Ok"
    THEN {args}
    ELSE { LET r == IRInlineAssembly_new(args.v, porder, jorder)
           IN  IF r.tag = "Ok" THEN DecodeOk(r.asm) ELSE DecodeErr(r.msg) :
               porder \in Orders(args.v.parameters), jorder \in Orders(args.v.jump_targets) }

\* Deserialize for IRInlineAssembly
IRInlineAssembly_deserialize(value) == new_of(deserialize_asm_args(value))

E_ModuleGlobals == "unable to deserialize IR module globals"
E_ModuleExternals == "unable to deserialize IR module externals"
E_ModuleTypes == "unable to deserialize IR module types"
E_ModuleDeclarations == "unable to deserialize IR module function declarations"
E_ModuleFunctions == "unable to deserialize IR module functions"
E_ModuleData == "unable to deserialize IR module data"
E_ModuleStringLiterals == "unable to deserialize IR module string literals"
E_ModuleInlineAssembly == "unable to deserialize IR module inline assembly"

\* value.get(key).ok_or(err)? handed to IRModule::deserialize_array, the
\* elements decoded by decode
deserialize_array(value, key, decode(_), err) ==
    LET arr == get_as(value, key, as_array)
    IN  IF ~arr.some
        THEN DecodeErr(err)
        ELSE collect([i \in 1..Len(arr.v) |-> decode(arr.v[i])])

\* the sequences of results decoding the first n inline-assembly records can give
RECURSIVE deserialize_each_asm(_, _)
deserialize_each_asm(arr, n) ==
    IF n = 0
    THEN {<<>>}
    ELSE { Append(results, r) : results \in deserialize_each_asm(arr, n - 1),
                                r \in IRInlineAssembly_deserialize(arr[n]) }

\* a decode that ended without a Module
Failed(r) == [tag |-> r.tag, msg |-> r.msg, module |-> NoModule]

\* the entities of a decoded array under their positions in the array
Keyed_by_position(entities, field) ==
    into_map([i \in 1..Len(entities) |-> i], entities, Len(entities))

\* the entities of a decoded array under the keys the loader gives them
Keyed(entities, field) ==
    into_map([i \in 1..Len(entities) |-> entities[i][field]], entities, Len(entities))

\* IRModule::new over the decoded tables: the results it can give
module_of(globals, externals, types, decls, funcs, data, string_literals, inline_assembly) ==
    IF inline_assembly.tag # "Ok"
    THEN {Failed(inline_assembly)}
    ELSE IRModule_new(IRModule(Keyed(globals.v, "name"),
                               Keyed(externals.v, "name"),
                               Keyed(types.v, "id"),
                               Keyed(string_literals.v, "id"),
                               Keyed(decls.v, "id"),
                               Keyed(funcs.v, "name"),
                               Keyed(data.v, "name"),
                               Keyed(inline_assembly.v, "id")))

\* the tables are decoded in this order, each up to its first failure
tables_of(asm_values, globals, externals, types, decls, funcs, data, string_literals) ==
    IF globals.tag # "Ok" THEN {Failed(globals)}
    ELSE IF externals.tag # "Ok" THEN {Failed(externals)}
    ELSE IF types.tag # "Ok" THEN {Failed(types)}
    ELSE IF decls.tag # "Ok" THEN {Failed(decls)}
    ELSE IF funcs.tag # "Ok" THEN {Failed(funcs)}
    ELSE IF data.tag # "Ok" THEN {Failed(data)}
    ELSE IF string_literals.tag # "Ok" THEN {Failed(string_literals)}
    ELSE IF ~asm_values.some THEN {Failed(DecodeErr(E_ModuleInlineAssembly))}
    ELSE UNION { module_of(globals, externals, types, decls, funcs, data, string_literals,
                           collect(results)) :
                 results \in deserialize_each_asm(asm_values.v, Len(asm_values.v)) }

\* Deserialize for IRModule: decode, then IRModule::new
IRModule_deserialize(value) ==
    tables_of(get_as(value, "inline_assembly", as_array),
              deserialize_array(value, "globals", IRSymbol_deserialize, E_ModuleGlobals),
              deserialize_array(value, "externals", IRSymbol_deserialize, E_ModuleExternals),
              deserialize_array(value, "types", IRType_deserialize, E_ModuleTypes),
              deserialize_array(value, "function_declarations",
                                IRFunctionDeclaration_deserialize, E_ModuleDeclarations),
              deserialize_array(value, "functions", IRFunction_deserialize, E_ModuleFunctions),
              deserialize_array(value, "data", IRData_deserialize, E_ModuleData),
              deserialize_array(value, "string_literals", IRStringLiteral_deserialize,
                                E_ModuleStringLiterals))

(***************************************************************************)
(* SpecDecode: one parsed document; DeserializeModule is Deserialize for   *)
(* IRModule (decode, then IRModule::new).  The documents are a well-formed *)
(* one and its variations: a field dropped, a field given a value of       *)
(* another kind or another tag, entities of every variant.                 *)
(***************************************************************************)
\* most nodes of the type trees of a document
MaxTypeNodes == 4

Without(fields, key) == [k \in DOMAIN fields \ {key} |-> fields[k]]

With(fields, key, v) == (key :> v) @@ fields

\* the records that differ from fields in one key, dropped or set to one of wrong
Defects(fields, wrong) ==
    {Without(fields, k) : k \in DOMAIN fields}
    \cup {With(fields, k, w) : k \in DOMAIN fields, w \in wrong}

Records(fields, wrong) == {Object(fields)} \cup {Object(f) : f \in Defects(fields, wrong)}

Wrong == {Null, String("?"), PosInt(7), Bool(TRUE)}

NoEntities == Array(<<>>)

One(value) == Array(<<value>>)

BaseDocument ==
    [globals |-> NoEntities, externals |-> NoEntities, types |-> NoEntities,
     string_literals |-> NoEntities, function_declarations |-> NoEntities,
     functions |-> NoEntities, data |-> NoEntities, inline_assembly |-> NoEntities]

Document(fields) == Object(fields @@ BaseDocument)

Int32Value == Object([type |-> String("int32")])

BitsValue == Object([type |-> String("bits"), width |-> PosInt(3)])

TypeValue(id, entries) == Object([identifier |-> PosInt(id), type |-> Array(entries)])

\* type 1 = [int32]
GoodType == TypeValue(1, <<Int32Value>>)

GoodSymbol == [identifier |-> String("x"), type |-> String("global")]

GoodDeclaration ==
    [identifier |-> PosInt(1), name |-> String("f"), parameters |-> PosInt(1),
     vararg |-> Bool(FALSE), returns |-> PosInt(1)]

RetValue == Object([opcode |-> String("ret")])

GoodFunction ==
    [identifier |-> PosInt(1), name |-> String("f"), locals |-> PosInt(1),
     body |-> One(RetValue)]

GoodData ==
    [identifier |-> String("d"), storage |-> String("global"), type |-> PosInt(1),
     value |-> NoEntities]

GoodStringLiteral ==
    [id |-> PosInt(1), public |-> Bool(FALSE), type |-> String("multibyte"),
     literal |-> String("x")]

\* a document with type 1, declaration 1 and function f next to fields
Linked(fields) ==
    Document(fields @@ [types |-> One(GoodType),
                        function_declarations |-> One(Object(GoodDeclaration)),
                        functions |-> One(Object(GoodFunction)),
                        string_literals |-> One(Object(GoodStringLiteral))])

TopDocuments ==
    {Null, NoEntities, Document(EmptyMap), Linked(EmptyMap)}
    \cup Records(BaseDocument, {Null, One(Null)})

SymbolDocuments ==
    { Document(key :> One(symbol)) :
        key \in {"globals", "externals"},
        symbol \in Records(GoodSymbol, Wrong)
                   \cup {Object(With(GoodSymbol, "type", String("thread_local")))} }

\* the type trees of exactly n nodes
RECURSIVE TypeTrees(_)
RECURSIVE TypeForests(_)
TypeTrees(n) ==
    IF n = 0
    THEN {}
    ELSE (IF n = 1 THEN {Int32Value, BitsValue} ELSE {})
         \cup {Object([type |-> String("array"), length |-> PosInt(2), element_type |-> e]) :
                 e \in TypeTrees(n - 1)}
         \cup {Object([type |-> String("struct"), fields |-> Array(f)]) :
                 f \in TypeForests(n - 1)}

\* the sequences of type trees of exactly n nodes in all
TypeForests(n) ==
    IF n = 0
    THEN {<<>>}
    ELSE UNION { {<<t>> \o f : t \in TypeTrees(k), f \in TypeForests(n - k)} : k \in 1..n }

\* a type of every forest, and a type of one union over every smaller forest
TreeDocuments ==
    { Document([types |-> One(TypeValue(1, f))]) :
        f \in UNION {TypeForests(n) : n \in 0..MaxTypeNodes} }
    \cup { Document([types |-> One(TypeValue(1, <<Object([type |-> String("union"),
                                                         fields |-> Array(f)])>>))]) :
             f \in UNION {TypeForests(n) : n \in 0..(MaxTypeNodes - 1)} }

\* type entries of every tag, each with its variations
TypeEntryValues ==
    UNION { Records(With(entry, "alignment", PosInt(4)), Wrong) :
              entry \in { [type |-> String(t)] : t \in DOMAIN ScalarTypeTags }
                        \cup { [type |-> String("bits"), width |-> PosInt(3)],
                               [type |-> String("builtin"), class |-> String("vararg")],
                               [type |-> String("struct"), fields |-> One(Int32Value)],
                               [type |-> String("union"), fields |-> One(Int32Value)],
                               [type |-> String("array"), length |-> PosInt(2),
                                element_type |-> Int32Value] } }

TypeDocuments ==
    {Document([types |-> One(TypeValue(1, <<entry>>))]) : entry \in TypeEntryValues}
    \cup {Document([types |-> One(type)]) : type \in Records(GoodType.fields, Wrong)}
    \cup {Document([types |-> Array(<<GoodType, TypeValue(id, <<BitsValue, BitsValue>>)>>)]) :
            id \in {1, 2}}

DeclarationDocuments ==
    { Document([types |-> One(GoodType), function_declarations |-> One(declaration)]) :
        declaration \in Records(GoodDeclaration, Wrong)
                        \cup {Object(With(GoodDeclaration, "vararg", String("?")))} }

\* a function f of declaration 1 with this body, next to type 1, declaration 1
\* and string literal 1
BodyDocument(body) == Linked([functions |-> One(Object(With(GoodFunction, "body", body)))])

\* instruction records by argument
Instr(mnemonic, arg) == Object([opcode |-> String(mnemonic), arg |-> arg])

BodyInstrValues ==
    {RetValue, Object([opcode |-> String("bogus")]), Null}
    \cup {Instr("jmp", PosInt(k)) : k \in 0..3}
    \cup {Instr("invoke", Object([identifier |-> PosInt(id)])) : id \in {1, 7}}
    \cup {Instr("pushstring", PosInt(id)) : id \in {1, 5}}
    \cup {Instr("getlocal", Object([type |-> PosInt(1), index |-> PosInt(i)])) : i \in {0, 1}}

\* instruction records of every opcode value over arguments of every kind
InstrRecords ==
    { Object(opcode @@ arg @@ memory_flags) :
        opcode \in Field("opcode", OpcodeValues),
        arg \in Field("arg", Scalars \cup {Array(<<PosInt(1), PosInt(1)>>),
                                             Object([type |-> PosInt(1), index |-> PosInt(0)]),
                                             Object([data |-> String("x")]),
                                             Object([identifier |-> PosInt(1)])}),
        memory_flags \in Field("memory_flags", {Object([volatile |-> Bool(TRUE)])}) }

FunctionDocuments ==
    {Linked([functions |-> One(function)]) : function \in Records(GoodFunction, Wrong)}
    \cup {BodyDocument(Array(body)) : body \in BoundedSeq(BodyInstrValues, 2)}
    \cup {BodyDocument(One(instr)) : instr \in InstrRecords}
    \cup {Linked([functions |-> One(Object(GoodFunction)), types |-> Null])}

\* data elements of every class, each with its variations
DataElementValues ==
    UNION { Records(element, Wrong) :
              element \in { [class |-> String("undefined"), count |-> PosInt(2)],
                            [class |-> String("aggregate")],
                            [class |-> String("integer"), value |-> NegInt(0 - 1)],
                            [class |-> String("float32"), value |-> Float(3)],
                            [class |-> String("float64"), value |-> PosInt(1)],
                            [class |-> String("long_double"), value |-> Float(3)],
                            [class |-> String("string"), content |-> String("x")],
                            [class |-> String("pointer"), reference |-> String("x"),
                             offset |-> PosInt(0)],
                            [class |-> String("string_pointer"), string |-> PosInt(1),
                             offset |-> PosInt(0)],
                            [class |-> String("raw"),
                             value |-> Array(<<PosInt(1), PosInt(U8Range + 1)>>)] } }
    \cup {Object([class |-> String("raw"), value |-> Array(<<PosInt(1), String("?")>>)])}

\* the names a Pointer can have for its base: x is a global, y an external, f a
\* function, d a data object of the document; nowhere is none of them
PointerBases == {"x", "y", "f", "d", "nowhere"}

PointerValue(base) ==
    Object([class |-> String("pointer"), reference |-> String(base), offset |-> PosInt(0)])

\* the ids a StringPointer can have for its base: 1 is the string literal of
\* the document, 2 is the id of none
StringPointerBases == {1, 2}

StringPointerValue(base) ==
    Object([class |-> String("string_pointer"), string |-> PosInt(base), offset |-> PosInt(0)])

DataDocument(data) ==
    Linked([globals |-> One(Object(GoodSymbol)),
            externals |-> One(Object(With(GoodSymbol, "identifier", String("y")))),
            data |-> One(data)])

DataDocuments ==
    {DataDocument(data) : data \in Records(GoodData, Wrong)}
    \cup {DataDocument(Object(With(GoodData, "value", One(element)))) :
            element \in DataElementValues}
    \cup {DataDocument(Object(With(GoodData, "value", Array(elements)))) :
            elements \in BoundedSeq({PointerValue(base) : base \in PointerBases}, 2)}
    \cup {DataDocument(Object(With(With(GoodData, "value", One(PointerValue(base))),
                                   "type", PosInt(type)))) :
            base \in PointerBases, type \in {1, 2}}
    \cup {DataDocument(Object(With(GoodData, "value", Array(elements)))) :
            elements \in BoundedSeq({StringPointerValue(base) : base \in StringPointerBases}, 2)}
    \cup {DataDocument(Object(With(With(GoodData, "value", One(StringPointerValue(base))),
                                   "type", PosInt(type)))) :
            base \in StringPointerBases, type \in {1, 2}}

StringLiteralDocuments ==
    { Document([string_literals |-> One(literal)]) :
        literal \in Records(GoodStringLiteral, Wrong)
                    \cup UNION { Records([id |-> PosInt(1), public |-> Bool(TRUE),
                                          type |-> String(t),
                                          literal |-> Array(<<PosInt(1), PosInt(U32Range + 1)>>)],
                                         Wrong) : t \in {"unicode16", "unicode32"} } }

Names(aliases) == Array([i \in 1..Len(aliases) |-> String(aliases[i])])

\* a parameter of one of the classes with one type ref and one slot
SlotParameter(class, index_field) ==
    (index_field :> PosInt(0))
    @@ [identifier |-> PosInt(1), names |-> Names(<<"a">>), class |-> String(class),
        type |-> PosInt(1), type_index |-> PosInt(0), constraint |-> String("none")]

ReadStoreParameter ==
    [identifier |-> PosInt(1), names |-> Names(<<"a">>), class |-> String("read_store"),
     from_type |-> PosInt(1), from_type_index |-> PosInt(0), from |-> PosInt(0),
     to_type |-> PosInt(1), to_type_index |-> PosInt(0), to |-> PosInt(1),
     constraint |-> String("register")]

ImmediateParameter ==
    [identifier |-> PosInt(1), names |-> Names(<<"a">>), class |-> String("immediate"),
     type |-> PosInt(1), type_index |-> PosInt(0), value |-> NegInt(0 - 1),
     constraint |-> String("memory")]

\* the immediates: variant absent or one of the tags or another string, the
\* base (an identifier name, a literal id) absent or present
ImmediateParameters ==
    { variant @@ base @@ With(ImmediateParameter, "type_index", PosInt(i)) :
        variant \in Field("variant", {String("identifier_based"), String("literal_based"),
                                      String("constant"), String("?"), PosInt(1)}),
        base \in Field("base", {String("x"), PosInt(1), PosInt(5)}),
        i \in {0, 1} }

ParameterValues ==
    UNION { Records(parameter, Wrong) :
              parameter \in { SlotParameter("read", "from"), SlotParameter("load", "from"),
                              SlotParameter("store", "to"),
                              SlotParameter("load_store", "from_to"),
                              ReadStoreParameter, ImmediateParameter,
                              With(ImmediateParameter, "variant", String("identifier_based")),
                              With(ImmediateParameter, "variant", String("literal_based")) } }
    \cup {Object(parameter) : parameter \in ImmediateParameters}
    \cup {Object(With(With(With(ReadStoreParameter, "to_type", PosInt(t)),
                            "to_type_index", PosInt(i)), "from", PosInt(i))) :
            t \in {1, 2}, i \in {0, 1}}
    \cup {Object(With(SlotParameter("read", "from"), "constraint", String(c))) :
            c \in {"register", "memory", "register_memory"}}
    \cup {String("x"), PosInt(1)}

GoodJumpTarget ==
    [identifier |-> PosInt(1), names |-> Names(<<"b">>), function |-> String("f"),
     target |-> PosInt(1)]

JumpTargetValues ==
    Records(GoodJumpTarget, Wrong)
    \cup {Object(With(With(GoodJumpTarget, "function", String(f)), "target", PosInt(k))) :
            f \in {"f", "g"}, k \in 0..2}

GoodAsm ==
    [identifier |-> PosInt(1), global |-> Bool(TRUE), template |-> String("nop"),
     parameters |-> NoEntities, clobbers |-> One(String("cc")), jump_targets |-> NoEntities]

AliasChoices == {<<>>, <<"a">>, <<"b">>, <<"a", "a">>, <<"a", "b">>}

AsmDocuments ==
    {Linked([inline_assembly |-> One(asm)]) : asm \in Records(GoodAsm, Wrong)}
    \cup {Linked([inline_assembly |-> One(Object(With(GoodAsm, "parameters", One(parameter))))]) :
            parameter \in ParameterValues}
    \cup {Linked([inline_assembly |-> One(Object(With(GoodAsm, "jump_targets", One(target))))]) :
            target \in JumpTargetValues}
    \cup {Linked([inline_assembly |->
                    One(Object(With(With(GoodAsm, "parameters",
                                         Array(<<Object(With(SlotParameter("read", "from"),
                                                             "names", Names(p1))),
                                                 Object(With(With(SlotParameter("load", "from"),
                                                                  "names", Names(p2)),
                                                             "identifier", PosInt(id)))>>)),
                                    "jump_targets",
                                    One(Object(With(GoodJumpTarget, "names", Names(j))))))) ]) :
            p1 \in AliasChoices, p2 \in AliasChoices, j \in AliasChoices, id \in {1, 2}}
    \cup {Linked([inline_assembly |-> Array(<<Object(GoodAsm),
                                              Object(With(GoodAsm, "identifier", PosInt(id)))>>)]) :
            id \in {1, 2}}
    \cup {Linked([inline_assembly |-> One(Object(With(GoodAsm, "clobbers", clobbers)))]) :
            clobbers \in {NoEntities, Array(<<String("cc"), String("cc")>>), One(PosInt(1))}}

\* two records in one array, in both orders
Pairs(field, a, b) ==
    {Linked(field :> Array(<<a, b>>)), Linked(field :> Array(<<b, a>>))}

\* documents with two records of one key, or of two keys, in one array; the
\* two differ in what the validator looks at
DuplicateDocuments ==
    UNION { Pairs("globals", Object(GoodSymbol),
                  Object([identifier |-> String(name), type |-> String("thread_local")])) :
              name \in {"x", "z"} }
    \cup UNION { Pairs("types", GoodType, TypeValue(id, <<BitsValue, BitsValue>>)) :
                   id \in {1, 2} }
    \cup UNION { { Document([types |-> Array(types),
                             function_declarations |-> One(Object(GoodDeclaration)),
                             functions |-> One(Object(With(GoodFunction, "body",
                                   One(Instr("getlocal", Object([type |-> PosInt(1),
                                                                 index |-> PosInt(1)])))))),
                             string_literals |-> One(Object(GoodStringLiteral))]) :
                     types \in {<<GoodType, TypeValue(id, <<BitsValue, BitsValue>>)>>,
                                <<TypeValue(id, <<BitsValue, BitsValue>>), GoodType>>} } :
                   id \in {1, 2} }
    \cup UNION { Pairs("function_declarations", Object(GoodDeclaration),
                       Object(With(With(GoodDeclaration, "identifier", PosInt(id)),
                                   "returns", PosInt(2)))) :
                   id \in {1, 2} }
    \cup UNION { Pairs("functions", Object(GoodFunction),
                       Object(With(With(GoodFunction, "name", String(name)),
                                   "body", One(Instr("jmp", PosInt(5)))))) :
                   name \in {"f", "g"} }
    \cup UNION { Pairs("data", Object(GoodData),
                       Object(With(With(GoodData, "identifier", String(name)),
                                   "type", PosInt(2)))) :
                   name \in {"d", "e"} }
    \cup UNION { Pairs("string_literals", Object(GoodStringLiteral),
                       Object(With(With(GoodStringLiteral, "id", PosInt(id)),
                                   "literal", String("y")))) :
                   id \in {1, 2} }
    \cup UNION { Pairs("inline_assembly", Object(GoodAsm),
                       Object(With(With(GoodAsm, "identifier", PosInt(id)),
                                   "parameters",
                                   One(Object(With(SlotParameter("read", "from"),
                                                   "type", PosInt(2))))))) :
                   id \in {1, 2} }
    \cup UNION { { Linked([inline_assembly |->
                              One(Object(With(GoodAsm, "parameters", Array(parameters))))]) :
                     parameters \in
                       {<<Object(SlotParameter("read", "from")),
                          Object(With(With(SlotParameter("load", "from"), "type", PosInt(2)),
                                      "identifier", PosInt(id)))>>,
                        <<Object(With(With(SlotParameter("load", "from"), "type", PosInt(2)),
                                      "identifier", PosInt(id))),
                          Object(SlotParameter("read", "from"))>>} } :
                   id \in {1, 2} }
    \cup UNION { { Linked([inline_assembly |->
                              One(Object(With(GoodAsm, "jump_targets", Array(targets))))]) :
                     targets \in
                       {<<Object(GoodJumpTarget),
                          Object(With(With(GoodJumpTarget, "function", String("g")),
                                      "identifier", PosInt(id)))>>,
                        <<Object(With(With(GoodJumpTarget, "function", String("g")),
                                      "identifier", PosInt(id))),
                          Object(GoodJumpTarget)>>} } :
                   id \in {1, 2} }

Documents ==
    TopDocuments \cup SymbolDocuments \cup TreeDocuments \cup TypeDocuments
    \cup DeclarationDocuments \cup FunctionDocuments \cup DataDocuments
    \cup StringLiteralDocuments \cup AsmDocuments \cup DuplicateDocuments

InitDecode ==
    /\ pc = "document"
    /\ document \in Documents
    /\ decode_result = NoResult
    /\ tables = NoTables
    /\ module_result = NoResult
    /\ asm_args = NoAsmArgs
    /\ asm_result = NoAsmResult
    /\ instr_value = NoValue
    /\ instr_result = NoInstrResult

DeserializeModule ==
    /\ pc = "document"
    /\ \E r \in IRModule_deserialize(document) : decode_result' = r
    /\ pc' = "decoded"
    /\ UNCHANGED <<tables, module_result, asm_args, asm_result, instr_value, instr_result,
                   document>>

NextDecode == DeserializeModule

SpecDecode == InitDecode /\ [][NextDecode]_vars

Decoded == pc = "decoded"

(***************************************************************************)
(* C11: module decode plus validation ends in a Module or in an error      *)
(* value returned to the caller for every document; no document makes the  *)
(* decoder or the validator panic.                                         *)
(***************************************************************************)
C11_Original == Decoded => decode_result.tag \in {"Ok", "Err"}

\* the entry the registry has for a mnemonic
EntryOf(m) == CHOOSE o \in Opcodes : o.mnemonic = m

\* the IRInstructionArgument variant declared for a payload class
ShapeOf ==
    [none |-> "None", i64 |-> "Integer", u64 |-> "UInteger", u32 |-> "UIntegerPair",
     f64 |-> "Float64", f32 |-> "Float32", bool |-> "Boolean", string |-> "String",
     identifier |-> "Identifier", typeref |-> "TypeRef", coderef |-> "CodeRef",
     funcref |-> "FunctionRef", memflags |-> "MemFlags"]

(***************************************************************************)
(* C12: mnemonic round trip.  When decoding a record of a registered       *)
(* mnemonic m succeeds, mnemonic() of the decoded instruction is m, and    *)
(* its code() and the shape of its argument() are those the registry       *)
(* declares for the entry of m.                                            *)
(***************************************************************************)
C12_MnemonicRoundTrip ==
    (InstrDone /\ instr_result.tag = "Ok") =>
        /\ HasMnemonic(instr_value)
        /\ MnemonicOf(instr_value) \in Mnemonics
        /\ IRInstruction_mnemonic(instr_result.v) = MnemonicOf(instr_value)
        /\ IRInstruction_code(instr_result.v) = EntryOf(MnemonicOf(instr_value)).code
        /\ argument(instr_result.v).tag = ShapeOf[EntryOf(MnemonicOf(instr_value)).klass]

\* decoded an opcode that shares its payload class with another opcode
C12_Witness ==
    /\ InstrDone
    /\ instr_result.tag = "Ok"
    /\ MnemonicOf(instr_value) = "jmp"
    /\ instr_result.v.payload.x = 5

\* the record names an opcode of the u32-pair shape
IsU32Pair(value) ==
    /\ HasMnemonic(value)
    /\ MnemonicOf(value) \in Mnemonics
    /\ EntryOf(MnemonicOf(value)).klass = "u32"

(***************************************************************************)
(* C13: for an opcode of the u32-pair shape, decode succeeds only if "arg" *)
(* is a 2-element array of unsigned integers that each fit in 32 bits, and *)
(* the stored pair equals the two input values; an element above 2^32 - 1  *)
(* is rejected, not stored.                                                *)
(***************************************************************************)
C13_Original ==
    (InstrDone /\ IsU32Pair(instr_value) /\ instr_result.tag = "Ok") =>
        LET arg == get(instr_value, "arg")
        IN  /\ arg.some
            /\ arg.v.kind = "array"
            /\ Len(arg.v.items) = 2
            /\ \A i \in 1..2 : is_u64(arg.v.items[i]) /\ arg.v.items[i].n <= U32Range - 1
            /\ instr_result.v.payload.x = arg.v.items[1].n
            /\ instr_result.v.payload.y = arg.v.items[2].n

(***************************************************************************)
(* The schema of a document: every required field present, every field     *)
(* present of its kind, every tag string one of its entity's tags.         *)
(* (The payload of an instruction record is left to the opcode's shape.)   *)
(***************************************************************************)
Has(value, key, Kind(_)) == get(value, key).some /\ Kind(get(value, key).v)

Opt(value, key, Kind(_)) == get(value, key).some => Kind(get(value, key).v)

HasTag(value, key, tags) == Has(value, key, LAMBDA v : v.kind = "string" /\ v.s \in tags)

IsStr(v) == v.kind = "string"

IsBool(v) == v.kind = "bool"

IsNumber(v) == v.kind = "number"

IsArrayOf(v, Kind(_)) == v.kind = "array" /\ \A i \in 1..Len(v.items) : Kind(v.items[i])

RECURSIVE WellFormedTypeEntry(_)
WellFormedTypeEntry(v) ==
    /\ is_object(v)
    /\ Opt(v, "alignment", is_u64)
    /\ Has(v, "type", IsStr)
    /\ LET type == get(v, "type").v.s
       IN  CASE type \in DOMAIN ScalarTypeTags -> TRUE
             [] type = "bits" -> Has(v, "width", is_u64)
             [] type = "builtin" -> HasTag(v, "class", {"vararg"})
             [] type \in {"struct", "union"} ->
                  /\ Has(v, "fields", LAMBDA f : f.kind = "array")
                  /\ \A i \in 1..Len(get(v, "fields").v.items) :
                        WellFormedTypeEntry(get(v, "fields").v.items[i])
             [] type = "array" ->
                  /\ Has(v, "length", is_u64)
                  /\ get(v, "element_type").some
                  /\ WellFormedTypeEntry(get(v, "element_type").v)
             [] OTHER -> FALSE

WellFormedType(v) ==
    /\ is_object(v)
    /\ Has(v, "identifier", is_u64)
    /\ Has(v, "type", LAMBDA t : IsArrayOf(t, WellFormedTypeEntry))

WellFormedSymbol(v) ==
    is_object(v) /\ Has(v, "identifier", IsStr) /\ HasTag(v, "type", {"global", "thread_local"})

\* the name of a declaration is optional: a string, or null, or absent
WellFormedDeclaration(v) ==
    /\ is_object(v)
    /\ Has(v, "identifier", is_u64)
    /\ Opt(v, "name", LAMBDA n : n.kind \in {"string", "null"})
    /\ Has(v, "parameters", is_u64)
    /\ Has(v, "vararg", IsBool)
    /\ Has(v, "returns", is_u64)

WellFormedInstruction(v) == is_object(v) /\ HasTag(v, "opcode", Mnemonics)

WellFormedFunction(v) ==
    /\ is_object(v)
    /\ Has(v, "identifier", is_u64)
    /\ Has(v, "name", IsStr)
    /\ Has(v, "locals", is_u64)
    /\ Has(v, "body", LAMBDA b : IsArrayOf(b, WellFormedInstruction))

WellFormedDataElement(v) ==
    /\ is_object(v)
    /\ Has(v, "class", IsStr)
    /\ LET class == get(v, "class").v.s
       IN  CASE class = "undefined" -> Opt(v, "count", is_u64)
             [] class = "aggregate" -> TRUE
             [] class = "integer" -> Has(v, "value", is_i64)
             [] class \in {"float32", "float64", "long_double"} -> Has(v, "value", IsNumber)
             [] class = "string" -> Has(v, "content", IsStr)
             [] class = "pointer" -> Has(v, "reference", IsStr) /\ Has(v, "offset", is_i64)
             [] class = "string_pointer" -> Has(v, "string", is_u64) /\ Has(v, "offset", is_i64)
             [] class = "raw" -> Has(v, "value", LAMBDA a : IsArrayOf(a, is_u64))
             [] OTHER -> FALSE

WellFormedData(v) ==
    /\ is_object(v)
    /\ Has(v, "identifier", IsStr)
    /\ HasTag(v, "storage", {"global", "thread_local"})
    /\ Has(v, "type", is_u64)
    /\ Has(v, "value", LAMBDA a : IsArrayOf(a, WellFormedDataElement))

WellFormedStringLiteral(v) ==
    /\ is_object(v)
    /\ Has(v, "id", is_u64)
    /\ Has(v, "public", IsBool)
    /\ HasTag(v, "type", {"multibyte", "unicode16", "unicode32"})
    /\ IF get(v, "type").v.s = "multibyte"
       THEN Has(v, "literal", IsStr)
       ELSE Has(v, "literal", LAMBDA a : IsArrayOf(a, is_u64))

\* the variant of an immediate is optional: any string but the two tags means
\* a constant
WellFormedParameter(v) ==
    /\ is_object(v)
    /\ Has(v, "identifier", is_u64)
    /\ Has(v, "names", LAMBDA a : IsArrayOf(a, IsStr))
    /\ HasTag(v, "constraint", DOMAIN ConstraintTags)
    /\ Has(v, "class", IsStr)
    /\ LET class == get(v, "class").v.s
           TypeRefFields == Has(v, "type", is_u64) /\ Has(v, "type_index", is_u64)
       IN  CASE class \in {"read", "load"} -> TypeRefFields /\ Has(v, "from", is_u64)
             [] class = "store" -> TypeRefFields /\ Has(v, "to", is_u64)
             [] class = "load_store" -> TypeRefFields /\ Has(v, "from_to", is_u64)
             [] class = "read_store" ->
                  \A key \in {"from_type", "from_type_index", "from",
                              "to_type", "to_type_index", "to"} : Has(v, key, is_u64)
             [] class = "immediate" ->
                  TypeRefFields /\ Has(v, "value", is_i64) /\ Opt(v, "variant", IsStr)
             [] OTHER -> FALSE

WellFormedJumpTarget(v) ==
    /\ is_object(v)
    /\ Has(v, "identifier", is_u64)
    /\ Has(v, "names", LAMBDA a : IsArrayOf(a, IsStr))
    /\ Has(v, "function", IsStr)
    /\ Has(v, "target", is_u64)

WellFormedInlineAssembly(v) ==
    /\ is_object(v)
    /\ Has(v, "identifier", is_u64)
    /\ Has(v, "global", IsBool)
    /\ Has(v, "template", IsStr)
    /\ Has(v, "parameters", LAMBDA a : IsArrayOf(a, WellFormedParameter))
    /\ Has(v, "clobbers", LAMBDA a : IsArrayOf(a, IsStr))
    /\ Has(v, "jump_targets", LAMBDA a : IsArrayOf(a, WellFormedJumpTarget))

WellFormed(v) ==
    /\ is_object(v)
    /\ Has(v, "globals", LAMBDA a : IsArrayOf(a, WellFormedSymbol))
    /\ Has(v, "externals", LAMBDA a : IsArrayOf(a, WellFormedSymbol))
    /\ Has(v, "types", LAMBDA a : IsArrayOf(a, WellFormedType))
    /\ Has(v, "string_literals", LAMBDA a : IsArrayOf(a, WellFormedStringLiteral))
    /\ Has(v, "function_declarations", LAMBDA a : IsArrayOf(a, WellFormedDeclaration))
    /\ Has(v, "functions", LAMBDA a : IsArrayOf(a, WellFormedFunction))
    /\ Has(v, "data", LAMBDA a : IsArrayOf(a, WellFormedData))
    /\ Has(v, "inline_assembly", LAMBDA a : IsArrayOf(a, WellFormedInlineAssembly))

(***************************************************************************)
(* C14: decode is all-or-nothing.  A document in which a required field is *)
(* absent, a field (required or optional) has the wrong kind, or a tag     *)
(* string is unrecognized decodes to an error and no Module.               *)
(***************************************************************************)
C14_Original ==
    (Decoded /\ ~WellFormed(document)) =>
        decode_result.tag = "Err" /\ decode_result.module = NoModule

(***************************************************************************)
(* The immediate parameters: documents that are well formed and hold one   *)
(* inline assembly with one parameter of class "immediate".                *)
(***************************************************************************)
TheInlineAssembly == get(document, "inline_assembly").v.items[1]

TheParameter == get(TheInlineAssembly, "parameters").v.items[1]

ImmediateCase ==
    /\ Decoded
    /\ WellFormed(document)
    /\ Len(get(document, "inline_assembly").v.items) = 1
    /\ Len(get(TheInlineAssembly, "parameters").v.items) = 1
    /\ get(TheParameter, "class").v.s = "immediate"

\* the "variant" of the parameter record, None when absent
TheVariant == get_as(TheParameter, "variant", as_str)

TheTypeRef ==
    IRTypeRef(as_u64(get(TheParameter, "type").v).v, as_u64(get(TheParameter, "type_index").v).v)

TheValue == as_i64(get(TheParameter, "value").v).v

\* the type reference resolves: some type of the document has the id, and
\* the index is below the number of its entries
TypeRefResolves ==
    \E i \in 1..Len(get(document, "types").v.items) :
        LET type == get(document, "types").v.items[i]
        IN  /\ as_u64(get(type, "identifier").v).v = TheTypeRef.type_id
            /\ TheTypeRef.type_index < Len(get(type, "type").v.items)

\* the class of the decoded parameter
DecodedClass ==
    decode_result.module.inline_asm[as_u64(get(TheInlineAssembly, "identifier").v).v]
        .parameters[as_u64(get(TheParameter, "identifier").v).v].klass

(***************************************************************************)
(* C15: an immediate parameter with well-formed type, type_index and value *)
(* whose "variant" is absent or any string other than the two tags decodes *)
(* to ImmediateConstant(type_ref, value).                                  *)
(***************************************************************************)
C15_Original ==
    (/\ ImmediateCase
     /\ (TheVariant.some => TheVariant.v \notin {"identifier_based", "literal_based"})
     /\ TypeRefResolves)
    => /\ decode_result.tag = "Ok"
       /\ DecodedClass = [tag |-> "ImmediateConstant", typeref |-> TheTypeRef,
                          value |-> TheValue]

\* the "base" of the parameter record: the name of an identifier-based
\* immediate, the string literal id of a literal-based one
TheBase == get(TheParameter, "base")

(***************************************************************************)
(* C16: an immediate parameter whose "variant" is "identifier_based"       *)
(* decodes to ImmediateIdentifierBased(type_ref, name, value) with the     *)
(* name given in the record, never to ImmediateConstant.                   *)
(***************************************************************************)
C16_Original ==
    (/\ ImmediateCase
     /\ TheVariant = Some("identifier_based")
     /\ TheBase.some /\ IsStr(TheBase.v)
     /\ TypeRefResolves)
    => /\ decode_result.tag = "Ok"
       /\ DecodedClass = [tag |-> "ImmediateIdentifierBased", typeref |-> TheTypeRef,
                          name |-> TheBase.v.s, value |-> TheValue]

\* the ids of the string literals of the document
StringLiteralIds ==
    { as_u64(get(get(document, "string_literals").v.items[i], "id").v).v :
        i \in 1..Len(get(document, "string_literals").v.items) }

(***************************************************************************)
(* C17: an immediate parameter whose "variant" is "literal_based" decodes  *)
(* to ImmediateLiteralBased(type_ref, string_literal_id, value), and the   *)
(* module is accepted exactly when the type reference is valid and the     *)
(* literal id is a key of the string literal table.                        *)
(***************************************************************************)
C17_Original ==
    (/\ ImmediateCase
     /\ TheVariant = Some("literal_based")
     /\ TheBase.some /\ is_u64(TheBase.v))
    => /\ decode_result.tag = "Ok"
          <=> (TypeRefResolves /\ as_u64(TheBase.v).v \in StringLiteralIds)
       /\ decode_result.tag = "Ok" =>
            DecodedClass = [tag |-> "ImmediateLiteralBased", typeref |-> TheTypeRef,
                            literal_id |-> as_u64(TheBase.v).v, value |-> TheValue]

\* a record of an opcode whose payload is a float (f64 or f32)
IsFloatRecord(value) ==
    /\ HasMnemonic(value)
    /\ MnemonicOf(value) \in Mnemonics
    /\ EntryOf(MnemonicOf(value)).klass \in {"f64", "f32"}

(***************************************************************************)
(* C18: decoding an f32 or f64 argument succeeds whenever "arg" is a JSON  *)
(* number of any kind (an integer such as 1 as well as a fractional value  *)
(* such as 1.5) and fails only when "arg" is absent or not a number.       *)
(***************************************************************************)
C18_Original ==
    (InstrDone /\ IsFloatRecord(instr_value)) =>
        (instr_result.tag = "Ok"
            <=> (get(instr_value, "arg").some /\ IsNumber(get(instr_value, "arg").v)))

(***************************************************************************)
(* The tree of a type node and what its pre-order flattening is.           *)
(***************************************************************************)
\* the tag of a type node
TagOf(node) == get(node, "type").v.s

\* the direct children of a type node, in order
Children(node) ==
    CASE TagOf(node) \in {"struct", "union"} -> get(node, "fields").v.items
      [] TagOf(node) = "array" -> <<get(node, "element_type").v>>
      [] OTHER -> <<>>

RECURSIVE NodeCount(_)
RECURSIVE ForestCount(_)
\* the number of nodes of a type tree
NodeCount(node) == 1 + ForestCount(Children(node))

\* the number of nodes of a sequence of type trees
ForestCount(forest) ==
    IF forest = <<>> THEN 0 ELSE NodeCount(Head(forest)) + ForestCount(Tail(forest))

\* the entry of a node agrees with the node: the variant of its tag, and the
\* field count of a struct or union, the length of an array
EntryAgrees(entry, node) ==
    CASE TagOf(node) = "struct" ->
           entry.variant = "Struct" /\ entry.n = Len(Children(node))
      [] TagOf(node) = "union" ->
           entry.variant = "Union" /\ entry.n = Len(Children(node))
      [] TagOf(node) = "array" ->
           /\ entry.variant = "Array"
           /\ entry.n = get(node, "length").v.n
           /\ Len(Children(node)) = 1
      [] TagOf(node) = "bits" -> entry.variant = "Bits" /\ entry.n = get(node, "width").v.n
      [] TagOf(node) = "builtin" -> entry.variant = "Builtin"
      [] OTHER -> entry.variant = ScalarTypeTags[TagOf(node)]

\* content holds, from position pos on, the trees of forest in pre-order:
\* a node's entry, then the flattenings of its children in order, then the
\* next tree
RECURSIVE Flattened(_, _, _)
Flattened(forest, content, pos) ==
    \/ forest = <<>>
    \/ /\ pos <= Len(content)
       /\ EntryAgrees(content[pos], Head(forest))
       /\ Flattened(Children(Head(forest)), content, pos + 1)
       /\ Flattened(Tail(forest), content, pos + NodeCount(Head(forest)))

\* the type records of the document
TypeRecords == get(document, "types").v.items

IdOf(type) == as_u64(get(type, "identifier").v).v

\* the records that reach the type table: a later record of the same id
\* replaces an earlier one
Kept == { i \in 1..Len(TypeRecords) :
            \A j \in (i + 1)..Len(TypeRecords) : IdOf(TypeRecords[j]) # IdOf(TypeRecords[i]) }

(***************************************************************************)
(* C19: type decode is a pre-order flattening.  The number of entries of a *)
(* decoded type is the number of nodes of its input trees; a Struct or     *)
(* Union entry carries the number of its direct children and is followed   *)
(* by their flattenings in order; an Array entry is followed by exactly    *)
(* one element type.                                                       *)
(***************************************************************************)
C19_PreOrderFlattening ==
    (Decoded /\ decode_result.tag = "Ok") =>
        \A i \in Kept :
            LET forest == get(TypeRecords[i], "type").v.items
                content == decode_result.module.types[IdOf(TypeRecords[i])].content
            IN  /\ Len(content) = ForestCount(forest)
                /\ Flattened(forest, content, 1)

\* decoded struct { array of int32, bits }: a parent of two children, the
\* first of them a parent itself
C19_Witness ==
    /\ Decoded
    /\ decode_result.tag = "Ok"
    /\ Len(TypeRecords) = 1
    /\ Len(get(TypeRecords[1], "type").v.items) = 1
    /\ LET content == decode_result.module.types[1].content
       IN  /\ Len(content) = 4
           /\ <<content[1].variant, content[2].variant, content[3].variant,
                content[4].variant>> = <<"Struct", "Array", "Int32", "Bits">>
           /\ content[1].n = 2

(***************************************************************************)
(* The Pointer elements of the data of a document, and the document with   *)
(* another base in each of them.                                           *)
(***************************************************************************)
DataRecords == get(document, "data").v.items

IsPointer(element) == get_as(element, "class", as_str) = Some("pointer")

HasPointer ==
    \E i \in 1..Len(DataRecords) :
        \E j \in 1..Len(get(DataRecords[i], "value").v.items) :
            IsPointer(get(DataRecords[i], "value").v.items[j])

\* every name the document declares: globals, externals, functions, data
DeclaredNames ==
    UNION { { get(get(document, pair[1]).v.items[i], pair[2]).v.s :
                i \in 1..Len(get(document, pair[1]).v.items) } :
            pair \in {<<"globals", "identifier">>, <<"externals", "identifier">>,
                      <<"functions", "name">>, <<"data", "identifier">>} }

\* the bases of the Pointer elements of the document
PointerBasesOf ==
    UNION { { get(get(DataRecords[i], "value").v.items[j], "reference").v.s :
                j \in { k \in 1..Len(get(DataRecords[i], "value").v.items) :
                          IsPointer(get(DataRecords[i], "value").v.items[k]) } } :
            i \in 1..Len(DataRecords) }

Rebase(element, base) ==
    IF IsPointer(element)
    THEN Object(With(element.fields, "reference", String(base)))
    ELSE element

\* the document with base as the base of each of its Pointer elements
RebasedDocument(base) ==
    Object(With(document.fields, "data",
                Array([i \in 1..Len(DataRecords) |->
                         LET elements == get(DataRecords[i], "value").v.items
                         IN  Object(With(DataRecords[i].fields, "value",
                                         Array([j \in 1..Len(elements) |->
                                                  Rebase(elements[j], base)])))])))

\* what decode and validation can answer for a document
Outcomes(value) == { <<r.tag, r.msg>> : r \in IRModule_deserialize(value) }

(***************************************************************************)
(* C20: a Data object with a Pointer element whose base names no symbol in *)
(* any table does not make construction fail: validation never inspects    *)
(* Pointer.base, so the answer for a document is the answer for the same   *)
(* document with any other base, one that resolves included.               *)
(***************************************************************************)
C20_PointerBaseUnchecked ==
    (Decoded /\ WellFormed(document) /\ HasPointer) =>
        \A base \in PointerBases :
            <<decode_result.tag, decode_result.msg>> \in Outcomes(RebasedDocument(base))

\* accepted a document whose data has a Pointer to a name it does not declare
C20_Witness ==
    /\ Decoded
    /\ WellFormed(document)
    /\ HasPointer
    /\ PointerBasesOf \cap DeclaredNames = {}
    /\ decode_result.tag = "Ok"
    /\ \E name \in DOMAIN decode_result.module.data :
          \E i \in 1..Len(decode_result.module.data[name].data) :
             /\ decode_result.module.data[name].data[i].variant = "Pointer"
             /\ decode_result.module.data[name].data[i].s \notin DeclaredNames

(***************************************************************************)
(* The four loops of IRModule::check taken in another order of the tables. *)
(***************************************************************************)
\* the results of each loop of check on its own
LoopsOf(self) ==
    [function_declarations |->
         Loop({check_function_declaration(self, k) : k \in DOMAIN self.function_declarations}),
     functions |-> Loop({check_function(self, k) : k \in DOMAIN self.functions}),
     data |-> Loop({check_data(self, k) : k \in DOMAIN self.data}),
     inline_asm |-> Loop(UNION {check_inline_asm(self, k) : k \in DOMAIN self.inline_asm})]

\* the loops run in the given order, from the i-th on, each when the ones
\* before it ended Ok
RECURSIVE InOrder(_, _, _)
InOrder(loops, order, i) ==
    IF i > Len(order) THEN {Ok} ELSE Seq2(loops[order[i]], InOrder(loops, order, i + 1))

\* the orders of the four tables
TableOrders ==
    { order \in [1..4 -> {"function_declarations", "functions", "data", "inline_asm"}] :
        \A i, j \in 1..4 : i # j => order[i] # order[j] }

\* the order the code visits the tables in
CodeOrder == <<"function_declarations", "functions", "data", "inline_asm">>

(***************************************************************************)
(* C21: the verdict of validation is order-independent.  For fixed tables  *)
(* IRModule::new answers Ok under every order of the tables and of their   *)
(* entries, or under none; only the violation reported first depends on    *)
(* the order.                                                              *)
(***************************************************************************)
C21_VerdictOrderIndependent ==
    Done =>
        /\ InOrder(LoopsOf(tables), CodeOrder, 1) = check(tables)
        /\ \A order \in TableOrders :
              \A r \in InOrder(LoopsOf(tables), order, 1) :
                  (r = Ok) <=> (module_result.tag = "Ok")

\* rejected tables for which the violation reported depends on the order
C21_Witness ==
    /\ Rejected
    /\ Cardinality(UNION { InOrder(LoopsOf(tables), order, 1) : order \in TableOrders }) > 1
    /\ Cardinality(check(tables)) > 1

(***************************************************************************)
(* Function bodies that differ in the shape of one opcode only.            *)
(***************************************************************************)
\* the instructions of the tables that carry an id in u64 or in string shape:
\* the function and the position of each
IdCarriers(self) ==
    { <<f, i>> \in UNION { {f} \X (1..IRBlock_len(self.functions[f].body)) :
                            f \in DOMAIN self.functions } :
        OpcodeOf(self.functions[f].body.code[i].identifier).klass \in {"u64", "string"} }

\* the tables with the opcode of one instruction replaced, its payload kept
WithOpcode(self, f, i, identifier) ==
    [self EXCEPT !.functions[f].body.code[i].identifier = identifier]

\* IRModule::new accepts the tables
Accepts(self) == \E r \in IRModule_new(self) : r.tag = "Ok"

(***************************************************************************)
(* C22: a u64-shape argument is never looked up in the string literal      *)
(* table and a string-shape argument always is.  Of two bodies that differ *)
(* only in whether the opcode carrying id n is of u64 or of string shape,  *)
(* both are accepted when n is a string literal key, and only the u64 one  *)
(* when n is not.                                                          *)
(***************************************************************************)
C22_StringShapeLookedUp ==
    Done =>
        \A c \in IdCarriers(tables) :
            LET n == tables.functions[c[1]].body.code[c[2]].payload.x
                as_u64_shape == WithOpcode(tables, c[1], c[2], "PushU")
                as_string_shape == WithOpcode(tables, c[1], c[2], "PushString")
            IN  /\ n \in DOMAIN tables.string_literals =>
                      (Accepts(as_u64_shape) <=> Accepts(as_string_shape))
                /\ n \notin DOMAIN tables.string_literals => ~Accepts(as_string_shape)
                /\ Accepts(as_u64_shape) <=>
                      Accepts([as_u64_shape EXCEPT
                                 !.functions[c[1]].body.code[c[2]].payload.x = 1])

\* accepted a body whose u64-shape opcode carries an id that is no string
\* literal key; the same body with the opcode in string shape is rejected
C22_Witness ==
    /\ Accepted
    /\ \E c \in IdCarriers(tables) :
          /\ tables.functions[c[1]].body.code[c[2]].identifier = "PushU"
          /\ tables.functions[c[1]].body.code[c[2]].payload.x
                \notin DOMAIN tables.string_literals
          /\ ~Accepts(WithOpcode(tables, c[1], c[2], "PushString"))

\* a record of an opcode of the funcref shape
IsFuncRefRecord(value) ==
    /\ HasMnemonic(value)
    /\ MnemonicOf(value) \in Mnemonics
    /\ EntryOf(MnemonicOf(value)).klass = "funcref"

(***************************************************************************)
(* C23: for an opcode of the funcref shape decode requires an unsigned     *)
(* integer arg.identifier and takes arg.name as optional: an absent name   *)
(* and a null name both decode to no name, a string name decodes to that   *)
(* name, and a name of any other kind makes decode fail.                   *)
(***************************************************************************)
C23_FuncRefName ==
    (InstrDone /\ IsFuncRefRecord(instr_value)) =>
        LET arg == get(instr_value, "arg")
            identifier == IF arg.some THEN get(arg.v, "identifier") ELSE None
            name == IF arg.some THEN get(arg.v, "name") ELSE None
            no_name == ~name.some \/ name.v.kind = "null"
        IN  /\ instr_result.tag = "Ok"
                <=> /\ identifier.some /\ is_u64(identifier.v)
                    /\ no_name \/ name.v.kind = "string"
            /\ instr_result.tag = "Ok" =>
                 /\ instr_result.v.payload.x = identifier.v.n
                 /\ instr_result.v.payload.b = ~no_name
                 /\ ~no_name => instr_result.v.payload.s = name.v.s

\* decoded a funcref whose name is an explicit null to no name
C23_Witness ==
    /\ InstrDone
    /\ IsFuncRefRecord(instr_value)
    /\ get(instr_value, "arg").some
    /\ get(get(instr_value, "arg").v, "name") = Some(Null)
    /\ instr_result.tag = "Ok"
    /\ ~instr_result.v.payload.b

\* a record of an opcode of the memflags shape
IsMemFlagsRecord(value) ==
    /\ HasMnemonic(value)
    /\ MnemonicOf(value) \in Mnemonics
    /\ EntryOf(MnemonicOf(value)).klass = "memflags"

(***************************************************************************)
(* C24: for an opcode of the memflags shape decode takes the flag from the *)
(* "memory_flags" object of the record only.  It fails when memory_flags   *)
(* is absent, is no object or has no boolean "volatile", and stores that   *)
(* boolean otherwise; whether "arg" is present, and what it holds, has no  *)
(* effect on the result.                                                   *)
(***************************************************************************)
C24_MemFlagsOnly ==
    (InstrDone /\ IsMemFlagsRecord(instr_value)) =>
        LET flags == get(instr_value, "memory_flags")
            volatile == IF flags.some THEN get(flags.v, "volatile") ELSE None
        IN  /\ instr_result.tag = "Ok"
                <=> (flags.some /\ is_object(flags.v) /\ volatile.some /\ IsBool(volatile.v))
            /\ instr_result.tag = "Ok" => instr_result.v.payload.b = volatile.v.b
            /\ instr_result = IRInstruction_deserialize(
                                  Object(Without(instr_value.fields, "arg")))
            /\ \A arg \in ArgValues :
                  instr_result = IRInstruction_deserialize(
                                     Object(With(instr_value.fields, "arg", arg)))

\* decoded the flag of a record that has an "arg" as well
C24_Witness ==
    /\ InstrDone
    /\ IsMemFlagsRecord(instr_value)
    /\ get(instr_value, "arg").some
    /\ is_object(get(instr_value, "arg").v)
    /\ instr_result.tag = "Ok"
    /\ ~instr_result.v.payload.b

\* the document holds one inline assembly with one parameter of the class
OneParameterOf(class) ==
    /\ Decoded
    /\ get_as(document, "inline_assembly", as_array).some
    /\ Len(get(document, "inline_assembly").v.items) = 1
    /\ get_as(TheInlineAssembly, "parameters", as_array).some
    /\ Len(get(TheInlineAssembly, "parameters").v.items) = 1
    /\ get_as(TheParameter, "class", as_str) = Some(class)

\* the document with another record for its one parameter
WithParameter(parameter) ==
    Object(With(document.fields, "inline_assembly",
                One(Object(With(TheInlineAssembly.fields, "parameters", One(parameter))))))

\* the to fields of a read_store record
ToFields == {"to_type", "to_type_index", "to"}

\* the records that differ from the parameter in one to field at most: the
\* field dropped, or holding another value
ToVariations ==
    { Object(Without(TheParameter.fields, key)) : key \in ToFields }
    \cup { Object(With(TheParameter.fields, key, v)) :
             key \in ToFields, v \in {PosInt(0), PosInt(1), PosInt(2), String("x")} }

(***************************************************************************)
(* C25: the to side of a decoded read_store parameter (type reference and  *)
(* slot index) equals its from side, both read from the from_type /        *)
(* from_type_index / from fields; the fields to_type / to_type_index / to  *)
(* of the record have no effect on the result.                             *)
(***************************************************************************)
C25_ReadStoreFromOnly ==
    OneParameterOf("read_store") =>
        /\ decode_result.tag = "Ok" =>
             DecodedClass =
                 [tag |-> "ReadStore",
                  typeref1 |-> IRTypeRef(get(TheParameter, "from_type").v.n,
                                         get(TheParameter, "from_type_index").v.n),
                  index1 |-> get(TheParameter, "from").v.n,
                  typeref2 |-> IRTypeRef(get(TheParameter, "from_type").v.n,
                                         get(TheParameter, "from_type_index").v.n),
                  index2 |-> get(TheParameter, "from").v.n]
        /\ \A parameter \in ToVariations :
              decode_result \in IRModule_deserialize(WithParameter(parameter))

\* accepted a read_store parameter whose to_type names no type of the
\* document and whose to differs from its from
C25_Witness ==
    /\ OneParameterOf("read_store")
    /\ decode_result.tag = "Ok"
    /\ get(TheParameter, "to_type") = Some(PosInt(2))
    /\ get(TheParameter, "to") # get(TheParameter, "from")
    /\ DecodedClass.typeref2.type_id = 1
    /\ DecodedClass.index2 = DecodedClass.index1

\* the document holds one data object with one element of the class
OneElementOf(class) ==
    /\ Decoded
    /\ get_as(document, "data", as_array).some
    /\ Len(DataRecords) = 1
    /\ get_as(DataRecords[1], "value", as_array).some
    /\ Len(get(DataRecords[1], "value").v.items) = 1
    /\ get_as(get(DataRecords[1], "value").v.items[1], "class", as_str) = Some(class)

TheElement == get(DataRecords[1], "value").v.items[1]

\* the one element of the one data object of the decoded module
DecodedElement == decode_result.module.data[get(DataRecords[1], "identifier").v.s].data[1]

(***************************************************************************)
(* C26: decoding a data element of class "raw" stores each integer of its  *)
(* "value" array unchanged as one byte; an integer outside the byte range  *)
(* aborts the decode with an error and is not stored as another byte.      *)
(***************************************************************************)
C26_Original ==
    (OneElementOf("raw") /\ decode_result.tag = "Ok") =>
        LET value == get_as(TheElement, "value", as_array)
        IN  /\ value.some
            /\ \A i \in 1..Len(value.v) : is_u64(value.v[i]) /\ value.v[i].n <= U8Range - 1
            /\ DecodedElement.raw = [i \in 1..Len(value.v) |-> value.v[i].n]

(***************************************************************************)
(* The table an array of records is re-indexed into.                       *)
(***************************************************************************)
\* the key a record holds in a field: a name or an id
KeyIn(record, key) ==
    IF get(record, key).v.kind = "string" THEN get(record, key).v.s ELSE get(record, key).v.n

\* the positions of the records no later record of the array shares its key
\* with
Survivors(items, key) ==
    { i \in 1..Len(items) :
        \A j \in (i + 1)..Len(items) : KeyIn(items[j], key) # KeyIn(items[i], key) }

\* table has one entry per distinct key of the array, the one decoded from
\* the last record of the key
LastWins(items, key, table, decode(_)) ==
    /\ DOMAIN table = { KeyIn(items[i], key) : i \in 1..Len(items) }
    /\ \A i \in Survivors(items, key) : table[KeyIn(items[i], key)] = decode(items[i]).v

\* the same for the parameters and the jump targets of the inline assembly
\* decoded from a record
LastWinsInside(record, asm) ==
    /\ LastWins(get(record, "parameters").v.items, "identifier", asm.parameters,
                deserialize_parameter)
    /\ LastWins(get(record, "jump_targets").v.items, "identifier", asm.jump_targets,
                deserialize_jump_target)

(***************************************************************************)
(* C27: module decode does not reject duplicate identifiers or names in    *)
(* one top-level array, or duplicate parameter or jump target ids in one   *)
(* inline assembly.  The entries are re-indexed in array order, the last   *)
(* entry of a key replaces the earlier ones, the table has one entry per   *)
(* distinct key, and references are validated against the survivor only.   *)
(***************************************************************************)
C27_LastEntryWins ==
    (Decoded /\ decode_result.tag = "Ok") =>
        LET m == decode_result.module
            asm_records == get(document, "inline_assembly").v.items
        IN  /\ LastWins(get(document, "globals").v.items, "identifier", m.globals,
                        IRSymbol_deserialize)
            /\ LastWins(get(document, "externals").v.items, "identifier", m.externals,
                        IRSymbol_deserialize)
            /\ LastWins(get(document, "types").v.items, "identifier", m.types,
                        IRType_deserialize)
            /\ LastWins(get(document, "function_declarations").v.items, "identifier",
                        m.function_declarations, IRFunctionDeclaration_deserialize)
            /\ LastWins(get(document, "functions").v.items, "name", m.functions,
                        IRFunction_deserialize)
            /\ LastWins(get(document, "data").v.items, "identifier", m.data,
                        IRData_deserialize)
            /\ LastWins(get(document, "string_literals").v.items, "id", m.string_literals,
                        IRStringLiteral_deserialize)
            /\ DOMAIN m.inline_asm =
                 { KeyIn(asm_records[i], "identifier") : i \in 1..Len(asm_records) }
            /\ \A i \in Survivors(asm_records, "identifier") :
                  LET asm == m.inline_asm[KeyIn(asm_records[i], "identifier")]
                  IN  /\ DecodeOk(asm) \in IRInlineAssembly_deserialize(asm_records[i])
                      /\ LastWinsInside(asm_records[i], asm)
            /\ m \in { r.module : r \in IRModule_new(m) }

\* accepted a document with two functions of one name, the first of which
\* jumps out of its body: the table holds the second only
C27_Witness ==
    /\ Decoded
    /\ decode_result.tag = "Ok"
    /\ LET functions == get(document, "functions").v.items
       IN  /\ Len(functions) = 2
           /\ KeyIn(functions[1], "name") = KeyIn(functions[2], "name")
           /\ get(functions[1], "body").v.items = <<Instr("jmp", PosInt(5))>>
           /\ Cardinality(DOMAIN decode_result.module.functions) = 1

\* the keys of the parameter and jump target maps of every inline assembly
InsideKeysMatch(m) ==
    \A a \in DOMAIN m.inline_asm :
        /\ \A p \in DOMAIN m.inline_asm[a].parameters : m.inline_asm[a].parameters[p].id = p
        /\ \A j \in DOMAIN m.inline_asm[a].jump_targets :
              m.inline_asm[a].jump_targets[j].id = j

\* the errors of the validator and of IRInlineAssembly::new for an entry
\* stored under a key that is not its own identifier or name
KeyMismatchErrors == {E_DeclKey, E_DataKey, E_AsmKey, E_ParamKey}

(***************************************************************************)
(* C28: every Module the decode path produces has, in all eight tables and *)
(* in the parameter and jump target maps of every inline assembly, each    *)
(* entry stored under a key equal to the entity's own identifier or name;  *)
(* the key-mismatch errors of the validator and of IRInlineAssembly::new   *)
(* are unreachable for every input document.                               *)
(***************************************************************************)
C28_DecodedKeysMatch ==
    Decoded =>
        /\ decode_result.msg \notin KeyMismatchErrors
        /\ decode_result.tag = "Ok" =>
             /\ VisitedKeysMatch(decode_result.module)
             /\ OtherKeysMatch(decode_result.module)
             /\ InsideKeysMatch(decode_result.module)

\* decoded a Module with an inline assembly of two parameters and a jump
\* target next to its type, declaration, function and string literal
C28_Witness ==
    /\ Decoded
    /\ decode_result.tag = "Ok"
    /\ DOMAIN decode_result.module.types # {}
    /\ DOMAIN decode_result.module.functions # {}
    /\ \E a \in DOMAIN decode_result.module.inline_asm :
          /\ Cardinality(DOMAIN decode_result.module.inline_asm[a].parameters) = 2
          /\ DOMAIN decode_result.module.inline_asm[a].jump_targets # {}

\* the aliases one could ask get_by_alias for: every alias written, and one more
Probes == Aliases \cup {"z"}

\* alias is in the alias list of the entity under key
AliasOf(entities, key, alias) ==
    \E i \in 1..Len(entities[key].aliases) : entities[key].aliases[i] = alias

\* the number of aliases written in the alias lists of a map of entities
RECURSIVE AliasCount(_)
AliasCount(entities) ==
    IF DOMAIN entities = {}
    THEN 0
    ELSE LET key == CHOOSE k \in DOMAIN entities : TRUE
         IN  Len(entities[key].aliases)
             + AliasCount([k \in DOMAIN entities \ {key} |-> entities[k]])

(***************************************************************************)
(* C29: after a successful IRInlineAssembly::new the alias index is exact: *)
(* get_by_alias(a) is Parameter(id) exactly when a is in the alias list of *)
(* the parameter id, JumpTarget(id) exactly when a is in the alias list of *)
(* the jump target id, and None exactly when a is an alias of neither; the *)
(* index holds as many aliases as the alias lists hold in total.           *)
(***************************************************************************)
C29_AliasIndexExact ==
    AsmDone /\ asm_result.tag = "Ok" =>
        LET self == asm_result.asm
        IN  /\ \A a \in Probes :
                 /\ \A id \in DOMAIN self.parameters :
                       get_by_alias(self, a) = Some([kind |-> "Parameter", id |-> id])
                           <=> AliasOf(self.parameters, id, a)
                 /\ \A id \in DOMAIN self.jump_targets :
                       get_by_alias(self, a) = Some([kind |-> "JumpTarget", id |-> id])
                           <=> AliasOf(self.jump_targets, id, a)
                 /\ get_by_alias(self, a) = None
                       <=> /\ \A id \in DOMAIN self.parameters : ~AliasOf(self.parameters, id, a)
                           /\ \A id \in DOMAIN self.jump_targets : ~AliasOf(self.jump_targets, id, a)
                 /\ get_by_alias(self, a).some =>
                       /\ get_by_alias(self, a).v.kind = "Parameter"
                             => get_by_alias(self, a).v.id \in DOMAIN self.parameters
                       /\ get_by_alias(self, a).v.kind = "JumpTarget"
                             => get_by_alias(self, a).v.id \in DOMAIN self.jump_targets
            /\ Cardinality(DOMAIN self.alias_index)
                   = AliasCount(self.parameters) + AliasCount(self.jump_targets)

\* a block whose second parameter has two aliases, both found, or one whose
\* parameter and jump target have an alias each
C29_Witness ==
    /\ AsmDone
    /\ asm_result.tag = "Ok"
    /\ \/ /\ 2 \in DOMAIN asm_result.asm.parameters
          /\ Len(asm_result.asm.parameters[2].aliases) = 2
          /\ get_by_alias(asm_result.asm, asm_result.asm.parameters[2].aliases[2])
                 = Some([kind |-> "Parameter", id |-> 2])
       \/ /\ 1 \in DOMAIN asm_result.asm.parameters
          /\ 1 \in DOMAIN asm_result.asm.jump_targets
          /\ get_by_alias(asm_result.asm, "a").some
          /\ get_by_alias(asm_result.asm, "b").some
          /\ get_by_alias(asm_result.asm, "a").v.kind # get_by_alias(asm_result.asm, "b").v.kind

(***************************************************************************)
(* The StringPointer elements of the data of a document, and the document  *)
(* with another string literal id as the base of each of them.             *)
(***************************************************************************)
IsStringPointer(element) == get_as(element, "class", as_str) = Some("string_pointer")

HasStringPointer ==
    \E i \in 1..Len(DataRecords) :
        \E j \in 1..Len(get(DataRecords[i], "value").v.items) :
            IsStringPointer(get(DataRecords[i], "value").v.items[j])

RebaseString(element, base) ==
    IF IsStringPointer(element)
    THEN Object(With(element.fields, "string", PosInt(base)))
    ELSE element

\* the document with base as the base of each of its StringPointer elements
StringRebasedDocument(base) ==
    Object(With(document.fields, "data",
                Array([i \in 1..Len(DataRecords) |->
                         LET elements == get(DataRecords[i], "value").v.items
                         IN  Object(With(DataRecords[i].fields, "value",
                                         Array([j \in 1..Len(elements) |->
                                                  RebaseString(elements[j], base)])))])))

\* the StringPointer elements of the decoded module whose base is no key of
\* its string literal table
Dangling(m) ==
    UNION { { <<name, i>> : i \in { j \in 1..Len(m.data[name].data) :
                                      /\ m.data[name].data[j].variant = "StringPointer"
                                      /\ m.data[name].data[j].n
                                             \notin DOMAIN m.string_literals } } :
            name \in DOMAIN m.data }

(***************************************************************************)
(* C30: a Data object with a StringPointer element whose base is not a key *)
(* of the string literal table does not make construction fail: validation *)
(* looks at the key and the type id of a data object and never at its      *)
(* elements, so the answer for a document is the answer for the same       *)
(* document with any other base, one that resolves included.               *)
(***************************************************************************)
C30_StringPointerBaseUnchecked ==
    (Decoded /\ WellFormed(document) /\ HasStringPointer) =>
        \A base \in StringPointerBases :
            <<decode_result.tag, decode_result.msg>> \in Outcomes(StringRebasedDocument(base))

\* a constructed module that holds a StringPointer to a literal it does not have
C30_Witness ==
    /\ Decoded
    /\ WellFormed(document)
    /\ HasStringPointer
    /\ decode_result.tag = "Ok"
    /\ Dangling(decode_result.module) # {}

====
